---------------------------- MODULE Spec2Model ----------------------------
(***************************************************************************)
(* Particle-life demo: the simulation engine (ParticleSystem), the camera  *)
(* (Camera) and the control surface that feeds them (Canvas).              *)
(*                                                                         *)
(* Numbers.  The program computes in IEEE floating point.  The model       *)
(* computes in fixed point: a dimensionless quantity (rule coefficient,    *)
(* force magnitude, normalized distance, unit direction, zoom, random      *)
(* sample) is the integer value * S, a length (position, world size,       *)
(* sensing radius, distance, screen pixel) and a velocity are the integer  *)
(* value * LS.  Every multiplication and division rounds toward zero, as   *)
(* a floating-point operation rounds its result; additions are exact.      *)
(* S is a multiple of 2100 so that the force law is exact on the 1/100     *)
(* grid of normalized distances.  NaN is carried as a value of its own.    *)
(***************************************************************************)
EXTENDS Integers, Sequences, FiniteSets, TLC

S == 21 * 100
LS == 10 * 10
NaN == -(2^30)

-----------------------------------------------------------------------------
(* Floating-point operations on fixed-point values, with NaN propagation.  *)

Abs(x) == IF x < 0 THEN -x ELSE x

Sign(x) == IF x < 0 THEN -1 ELSE 1

\* a / b rounded toward zero; 0 / 0 is NaN (the only division by zero the
\* program performs, see calculateForces)
TruncDiv(a, b) ==
    IF b = 0 THEN NaN ELSE Sign(a) * Sign(b) * (Abs(a) \div Abs(b))

Add(a, b) == IF a = NaN \/ b = NaN THEN NaN ELSE a + b

Sub(a, b) == IF a = NaN \/ b = NaN THEN NaN ELSE a - b

Neg(a) == IF a = NaN THEN NaN ELSE -a

Mul(a, b) == IF a = NaN \/ b = NaN THEN NaN ELSE a * b

\* (a * b) / c with one rounding; the product is taken in two parts,
\* |a| = q * |c| + r, so that no intermediate value leaves the 32-bit integers
MulDiv(a, b, c) ==
    IF a = NaN \/ b = NaN \/ c = NaN THEN NaN
    ELSE IF c = 0 THEN TruncDiv(a * b, c)
    ELSE Sign(a) * Sign(b) * Sign(c)
         * ((Abs(a) \div Abs(c)) * Abs(b)
            + ((Abs(a) % Abs(c)) * Abs(b)) \div Abs(c))

FAbs(a) == IF a = NaN THEN NaN ELSE Abs(a)

\* comparisons are false when either side is NaN
Lt(a, b) == a # NaN /\ b # NaN /\ a < b

Gt(a, b) == a # NaN /\ b # NaN /\ a > b

RECURSIVE SqrtSearch(_, _, _)
SqrtSearch(n, lo, hi) ==
    IF lo >= hi THEN lo
    ELSE LET mid == (lo + hi + 1) \div 2
         IN  IF mid * mid <= n THEN SqrtSearch(n, mid, hi)
                               ELSE SqrtSearch(n, lo, mid - 1)

\* Math.sqrt: the square root rounded toward zero; NaN for NaN
Sqrt(n) == IF n = NaN \/ n < 0 THEN NaN ELSE SqrtSearch(n, 0, 46340)

-----------------------------------------------------------------------------
(* ParticleSystem: constants of the force law and of the integrator.       *)

beta == (3 * S) \div 10

damping == 98

maxSpeed == 120

forceScale == 150

\* the diagonal (same colour) coefficient, -0.4
DiagonalRule == (-4 * S) \div 10

\* the default sensing radius, config.sensingRadius || 80
DefaultSensingRadius == 80 * LS

particleLifeForceNoOffset(r, a) ==
    IF Lt(r, beta) THEN MulDiv(r, S, beta)
    ELSE IF Lt(beta, r) /\ Lt(r, S)
         THEN MulDiv(a, Sub(S, MulDiv(FAbs(Sub(Sub(2 * r, S), beta)), S, S - beta)), S)
         ELSE 0

\* ParticleSystem.particleLifeForce(r, a)
particleLifeForce(r, a) ==
    IF Lt(r, beta)
    THEN \* repulsion zone: r / beta - 1
         Sub(MulDiv(r, S, beta), S)
    ELSE IF Lt(beta, r) /\ Lt(r, S)
         THEN \* a * (1 - |2r - 1 - beta| / (1 - beta))
              MulDiv(a, Sub(S, MulDiv(FAbs(Sub(Sub(Mul(2, r), S), beta)), S, S - beta)), S)
         ELSE 0

-----------------------------------------------------------------------------
(* State.                                                                  *)

VARIABLES
    \* ParticleSystem (the Simulation Engine)
    built,          \* a ParticleSystem instance exists
    particleCount,
    colorCount,
    worldSize,      \* [width, height]
    sensingRadius,
    positions,      \* flat array, 2 per particle
    velocities,     \* flat array, 2 per particle
    forces,         \* flat array, 2 per particle
    colorIndices,   \* 1 per particle
    colors,         \* r, g, b per particle
    sizes,          \* 1 per particle
    colorMatrix,    \* flat array, colorCount * colorCount
    \* Canvas props supplied by the control surface
    props,          \* [forceScale, maxSpeed, damping, sensingRadius, colorMatrix]
    \* Camera
    position,       \* [x, y], the world-space focus
    zoom,
    minZoom,
    maxZoom,
    screenWidth,
    screenHeight,
    \* arguments and result of a direct call of particleLifeForce
    forceArgs,      \* [r, a]
    \* bookkeeping of the run
    lastOp,         \* the operation that produced this state, its arguments
    ret,            \* what the last operation returned
    thrown,         \* the error the last operation threw, "" when it returned
    pre,            \* the engine / camera as it was when the last operation began
    steps,          \* operations performed so far
    \* InputHandler (the Input Mapper)
    isMouseDown,
    lastMousePos,   \* [x, y]
    mouseButton,
    cursor,         \* canvas.style.cursor
    listeners,      \* listeners the handler has attached: <<target, type>>
    gesture,        \* the drag gesture in progress or last ended: where and
                    \* with what camera it began, where the pointer is
    \* WebGLRenderer
    rendererRef,    \* a renderer instance was handed to the caller
    program,
    positionBuffer,
    colorBuffer,
    sizeBuffer,
    uniformLocs,    \* the four uniform locations are all non-null
    \* the WebGL context
    glLive,         \* GPU objects created and not deleted
    glDeletes,      \* per GPU object, the number of delete calls on it
    glCommands,     \* state, upload and draw commands issued
    glNext,         \* GPU objects created so far
    \* Canvas (the Frame Driver)
    cameraRef,      \* cameraRef.current is set
    mounted,        \* the initialization effect ran to its end
    animating,      \* an animation frame is requested
    lastTime,       \* lastTimeRef.current, in milliseconds
    calls,          \* update, getTransformUniforms, render and resize calls
                    \* of the last step of the Canvas, in order
    clock,          \* performance.now(), in milliseconds
    \* InteractionMatrix (the rule matrix editor)
    pendingMatrix,  \* the editor's pending copy of the rule matrix
    hasChanges

engineVars == <<built, particleCount, colorCount, worldSize, sensingRadius,
                positions, velocities, forces, colorIndices, colors,
                sizes, colorMatrix>>

cameraVars == <<position, zoom, minZoom, maxZoom, screenWidth, screenHeight>>

inputVars == <<isMouseDown, lastMousePos, mouseButton, cursor, listeners,
               gesture>>

rendererVars == <<rendererRef, program, positionBuffer, colorBuffer,
                  sizeBuffer, uniformLocs>>

glVars == <<glLive, glDeletes, glCommands, glNext>>

frameVars == <<cameraRef, mounted, animating, lastTime, calls, clock>>

editorVars == <<pendingMatrix, hasChanges>>

uiVars == <<inputVars, rendererVars, glVars, frameVars, editorVars>>

vars == <<engineVars, props, cameraVars, forceArgs, lastOp, ret, thrown, pre,
          steps, uiVars>>

\* the ParticleSystem instance as a record of its fields
This ==
    [particleCount |-> particleCount, colorCount |-> colorCount,
     worldSize |-> worldSize, sensingRadius |-> sensingRadius,
     positions |-> positions, velocities |-> velocities, forces |-> forces,
     colorIndices |-> colorIndices, colors |-> colors, sizes |-> sizes,
     colorMatrix |-> colorMatrix]

\* the Camera instance as a record of its fields
Cam ==
    [position |-> position, zoom |-> zoom, minZoom |-> minZoom,
     maxZoom |-> maxZoom, screenWidth |-> screenWidth,
     screenHeight |-> screenHeight]

Op(name, a, b, v) == [op |-> name, a |-> a, b |-> b, v |-> v]

NoOp == Op("none", 0, 0, 0)

-----------------------------------------------------------------------------
(* Inputs of the model.                                                    *)

\* outcomes of Math.random(), in [0, 1)
RandomSamples == {0, S \div 2, (7 * S) \div 8}

\* deltaTime values passed to update, in milliseconds
DeltaTimes == {16, 100}

\* world sizes (width = height, as the Canvas builds them)
WorldSizes == {8 * LS}

\* sensing radii given in the configuration
SensingRadii == {3 * LS, 10 * LS}

\* operations performed in one run
MaxSteps == 2

-----------------------------------------------------------------------------
(* ParticleSystem: construction.                                           *)

Idx(n) == 0 .. (n - 1)

\* (Math.random() - 0.5) * 3.0
RandomRule(u) == Mul(Sub(u, S \div 2), 3)

OffDiagonal(cc) == {k \in Idx(cc * cc) : k \div cc # k % cc}

\* ParticleSystem.generateColorMatrix; rm gives Math.random() of each
\* off-diagonal cell
generateColorMatrix(cc, rm) ==
    [k \in Idx(cc * cc) |->
        IF k \div cc = k % cc THEN DiagonalRule ELSE RandomRule(rm[k])]

\* ParticleSystem.initializeParticles: positions; rp gives the Math.random()
\* of each coordinate
initialPositions(n, ws, rp) ==
    [k \in Idx(2 * n) |->
        IF k % 2 = 0 THEN MulDiv(rp[k] - S \div 2, ws.width, S)
                     ELSE MulDiv(rp[k] - S \div 2, ws.height, S)]

\* ParticleSystem.initializeParticles: Math.floor(Math.random() * colorCount)
\* stored in a Uint8Array; rc gives the Math.random() of each particle
initialColorIndices(n, cc, rc) ==
    [i \in Idx(n) |-> ((rc[i] * cc) \div S) % 256]

\* hueToRgb(p, q, t) of hslToRgb, t in turns
hueToRgb(p, q, t) ==
    LET u == IF t < 0 THEN t + S ELSE IF t > S THEN t - S ELSE t
    IN  IF u * 6 < S THEN p + MulDiv(q - p, 6 * u, S)
        ELSE IF u * 2 < S THEN q
        ELSE IF u * 3 < 2 * S
        THEN p + MulDiv(q - p, 6 * ((2 * S) \div 3 - u), S)
        ELSE p

\* ParticleSystem.generateColorPalette: component ch of the colour c of cc,
\* hslToRgb((c / cc) * 360, 0.7, 0.5), where q = 0.85 and p = 0.15
colorPalette(cc, c, ch) ==
    hueToRgb((15 * S) \div 100, (85 * S) \div 100,
             MulDiv(c, S, cc) + (1 - ch) * (S \div 3))

\* ParticleSystem.initializeParticles: the colour copied from the palette;
\* an entry the palette does not have is stored as NaN
initialColors(n, cc, rc) ==
    [k \in Idx(3 * n) |->
        IF initialColorIndices(n, cc, rc)[k \div 3] < cc
        THEN colorPalette(cc, initialColorIndices(n, cc, rc)[k \div 3], k % 3)
        ELSE NaN]

\* ParticleSystem.constructor, for counts >= 0 (the typed arrays allocate)
NewParticleSystem(config, rp, rc, rm) ==
    [particleCount |-> config.particleCount,
     colorCount    |-> config.colorCount,
     worldSize     |-> config.worldSize,
     sensingRadius |-> IF config.sensingRadius = 0 THEN DefaultSensingRadius
                       ELSE config.sensingRadius,
     positions     |-> initialPositions(config.particleCount, config.worldSize, rp),
     velocities    |-> [k \in Idx(2 * config.particleCount) |-> 0],
     forces        |-> [k \in Idx(2 * config.particleCount) |-> 0],
     colorIndices  |-> initialColorIndices(config.particleCount, config.colorCount, rc),
     colors        |-> initialColors(config.particleCount, config.colorCount, rc),
     sizes         |-> [i \in Idx(config.particleCount) |-> 4 * LS],
     colorMatrix   |-> generateColorMatrix(config.colorCount, rm)]

\* new Float32Array(n) throws a RangeError for a negative length
ConstructorThrows(config) ==
    config.particleCount < 0 \/ config.colorCount < 0

Config(n, cc, w, h, r) ==
    [particleCount |-> n, colorCount |-> cc,
     worldSize |-> [width |-> w, height |-> h], sensingRadius |-> r]

\* the engine variables take the fields of the instance e
EngineIs(e) ==
    /\ built' = TRUE
    /\ particleCount' = e.particleCount
    /\ colorCount' = e.colorCount
    /\ worldSize' = e.worldSize
    /\ sensingRadius' = e.sensingRadius
    /\ positions' = e.positions
    /\ velocities' = e.velocities
    /\ forces' = e.forces
    /\ colorIndices' = e.colorIndices
    /\ colors' = e.colors
    /\ sizes' = e.sizes
    /\ colorMatrix' = e.colorMatrix

-----------------------------------------------------------------------------
(* ParticleSystem: the tick.                                               *)

\* a typed array read; an index outside the array reads undefined, which is
\* NaN in arithmetic
At(arr, k) == IF k \in DOMAIN arr THEN arr[k] ELSE NaN

\* the pair loop body with the rule of i used for both particles
PairForcesSymmetric(e, i, j) ==
    LET dx == Sub(e.positions[j * 2], e.positions[i * 2])
        dy == Sub(e.positions[j * 2 + 1], e.positions[i * 2 + 1])
        distanceSquared == Add(Mul(dx, dx), Mul(dy, dy))
        distance == Sqrt(distanceSquared)
        dirX == MulDiv(dx, S, distance)
        dirY == MulDiv(dy, S, distance)
        rule == At(e.colorMatrix,
                   e.colorIndices[i] * e.colorCount + e.colorIndices[j])
        magnitude == particleLifeForce(MulDiv(distance, S, e.sensingRadius), rule)
    IN  [skip |-> Gt(distanceSquared, Mul(e.sensingRadius, e.sensingRadius)),
         force1X |-> MulDiv(dirX, magnitude, S),
         force1Y |-> MulDiv(dirY, magnitude, S),
         force2X |-> MulDiv(Neg(dirX), magnitude, S),
         force2Y |-> MulDiv(Neg(dirY), magnitude, S)]

\* calculateForces, loop body for the pair (i, j): what the pair adds to the
\* accumulator of i (f1) and of j (f2); skip when the pair is farther apart
\* than the sensing radius
PairForces(e, i, j) ==
    LET x1 == e.positions[i * 2]
        y1 == e.positions[i * 2 + 1]
        color1 == e.colorIndices[i]
        x2 == e.positions[j * 2]
        y2 == e.positions[j * 2 + 1]
        color2 == e.colorIndices[j]
        dx == Sub(x2, x1)
        dy == Sub(y2, y1)
        distanceSquared == Add(Mul(dx, dx), Mul(dy, dy))
        sensingRadiusSquared == Mul(e.sensingRadius, e.sensingRadius)
        distance == Sqrt(distanceSquared)
        dirX == MulDiv(dx, S, distance)
        dirY == MulDiv(dy, S, distance)
        normalizedDistance == MulDiv(distance, S, e.sensingRadius)
        rule1to2 == At(e.colorMatrix, color1 * e.colorCount + color2)
        rule2to1 == At(e.colorMatrix, color2 * e.colorCount + color1)
        force1Magnitude == particleLifeForce(normalizedDistance, rule1to2)
        force2Magnitude == particleLifeForce(normalizedDistance, rule2to1)
    IN  [skip |-> Gt(distanceSquared, sensingRadiusSquared),
         force1X |-> MulDiv(dirX, force1Magnitude, S),
         force1Y |-> MulDiv(dirY, force1Magnitude, S),
         force2X |-> MulDiv(Neg(dirX), force2Magnitude, S),
         force2Y |-> MulDiv(Neg(dirY), force2Magnitude, S)]

\* calculateForces, the accumulation of one pair into the array f
Accumulate(e, f, i, j) ==
    LET p == PairForces(e, i, j)
    IN  IF p.skip THEN f
        ELSE [k \in DOMAIN f |->
                IF k = i * 2 THEN Add(f[k], p.force1X)
                ELSE IF k = i * 2 + 1 THEN Add(f[k], p.force1Y)
                ELSE IF k = j * 2 THEN Add(f[k], p.force2X)
                ELSE IF k = j * 2 + 1 THEN Add(f[k], p.force2Y)
                ELSE f[k]]

RECURSIVE ForceLoop(_, _, _, _)
\* calculateForces, the loops: for i, for j = i + 1 ..
ForceLoop(e, f, i, j) ==
    IF i >= e.particleCount THEN f
    ELSE IF j >= e.particleCount THEN ForceLoop(e, f, i + 1, i + 2)
    ELSE ForceLoop(e, Accumulate(e, f, i, j), i, j + 1)

\* ParticleSystem.calculateForces: the accumulator after the force pass
calculateForces(e) == ForceLoop(e, e.forces, 0, 1)

\* integrate, one particle's velocity component after force and damping
Damped(v, f, dt, scale, damp) ==
    MulDiv(Add(v, MulDiv(MulDiv(f, dt, 1000), scale * LS, S)), damp, 100)

\* integrate, the speed clamp of one component, given the other
Clamped(v, w, limit) ==
    LET speed == Sqrt(Add(Mul(v, v), Mul(w, w)))
    IN  IF Gt(speed, limit * LS)
        THEN MulDiv(MulDiv(v, S, speed), limit * LS, S)
        ELSE v

\* the integration step with the given damping (percent), maximum speed
\* and force scale: the new [positions, velocities]
IntegrateWith(e, dt, damp, limit, scale) ==
    LET dv == [k \in DOMAIN e.velocities |->
                 Damped(e.velocities[k], e.forces[k], dt, scale, damp)]
        other(k) == IF k % 2 = 0 THEN k + 1 ELSE k - 1
        nv == [k \in DOMAIN dv |-> Clamped(dv[k], dv[other(k)], limit)]
    IN  [positions |->
            [k \in DOMAIN e.positions |->
                Add(e.positions[k], MulDiv(nv[k], dt, 1000))],
         velocities |-> nv]

\* ParticleSystem.integrate(deltaTime), deltaTime in milliseconds
integrate(e, dt) ==
    LET r == IntegrateWith(e, dt, damping, maxSpeed, forceScale)
    IN  [e EXCEPT !.positions = r.positions, !.velocities = r.velocities]

\* handleBoundaries, one coordinate p in a world of extent size
Wrap(p, size) ==
    LET half == TruncDiv(size, 2)
        q == IF Lt(p, -half) THEN Add(p, size) ELSE p
    IN  IF Gt(q, half) THEN Sub(q, size) ELSE q

\* ParticleSystem.handleBoundaries
handleBoundaries(e) ==
    [e EXCEPT !.positions =
        [k \in DOMAIN e.positions |->
            IF k % 2 = 0 THEN Wrap(e.positions[k], e.worldSize.width)
                         ELSE Wrap(e.positions[k], e.worldSize.height)]]

\* this.forces.fill(0)
ResetForces(e) == [e EXCEPT !.forces = [k \in DOMAIN e.forces |-> 0]]

\* ParticleSystem.update(deltaTime)
update(e, dt) ==
    LET e1 == ResetForces(e)
        e2 == [e1 EXCEPT !.forces = calculateForces(e1)]
        e3 == integrate(e2, dt)
    IN  handleBoundaries(e3)

-----------------------------------------------------------------------------
(* ParticleSystem: the rule matrix and the engine-wide scalars.            *)

InRange(e, colorA, colorB) ==
    /\ colorA >= 0 /\ colorA < e.colorCount
    /\ colorB >= 0 /\ colorB < e.colorCount

Clamp(v, lo, hi) == IF v < lo THEN lo ELSE IF v > hi THEN hi ELSE v

\* setColorRule without the range check: the flat index is written whenever
\* it falls inside the array
setColorRuleUnchecked(e, colorA, colorB, strength) ==
    LET k == colorA * e.colorCount + colorB
    IN  IF k \in DOMAIN e.colorMatrix
        THEN [e EXCEPT !.colorMatrix[k] = strength]
        ELSE e

\* ParticleSystem.setColorRule(colorA, colorB, strength)
setColorRule(e, colorA, colorB, strength) ==
    IF InRange(e, colorA, colorB)
    THEN [e EXCEPT !.colorMatrix[colorA * e.colorCount + colorB] = strength]
    ELSE e

\* ParticleSystem.getColorRule(colorA, colorB)
getColorRule(e, colorA, colorB) ==
    IF InRange(e, colorA, colorB)
    THEN e.colorMatrix[colorA * e.colorCount + colorB]
    ELSE 0

\* randomizeRules without the i === j branch: the diagonal cells are left
\* as they are
randomizeRulesOffDiagonal(e, rm) ==
    [e EXCEPT !.colorMatrix =
        [k \in Idx(e.colorCount * e.colorCount) |->
            IF k \div e.colorCount = k % e.colorCount THEN e.colorMatrix[k]
            ELSE RandomRule(rm[k])]]

\* ParticleSystem.randomizeRules; rm gives Math.random() of each
\* off-diagonal cell
randomizeRules(e, rm) ==
    [e EXCEPT !.colorMatrix =
        [k \in Idx(e.colorCount * e.colorCount) |->
            IF k \div e.colorCount = k % e.colorCount THEN DiagonalRule
            ELSE RandomRule(rm[k])]]

\* ParticleSystem.setSensingRadius(radius)
setSensingRadius(e, radius) == [e EXCEPT !.sensingRadius = radius]

\* ParticleSystem.setWorldSize(width, height)
\* a setWorldSize that stretches the particles with the world
setWorldSizeRescaling(e, width, height) ==
    [e EXCEPT !.worldSize = [width |-> width, height |-> height],
              !.positions = [k \in DOMAIN e.positions |->
                  IF k % 2 = 0 THEN MulDiv(e.positions[k], width, e.worldSize.width)
                               ELSE MulDiv(e.positions[k], height, e.worldSize.height)]]

setWorldSize(e, width, height) ==
    [e EXCEPT !.worldSize = [width |-> width, height |-> height]]

-----------------------------------------------------------------------------
(* Initial values of the parts a specification does not exercise.          *)

NoEngine ==
    /\ built = FALSE
    /\ particleCount = 0
    /\ colorCount = 0
    /\ worldSize = [width |-> 0, height |-> 0]
    /\ sensingRadius = 0
    /\ positions = <<>>
    /\ velocities = <<>>
    /\ forces = <<>>
    /\ colorIndices = <<>>
    /\ colors = <<>>
    /\ sizes = <<>>
    /\ colorMatrix = <<>>

\* the props the App starts with: forceScale 150, maxSpeed 120, damping 0.98
DefaultProps ==
    [forceScale |-> 150, maxSpeed |-> 120, damping |-> 98,
     sensingRadius |-> DefaultSensingRadius, colorMatrix |-> <<>>]

\* new Camera(): focus (0, 0), zoom 1, constraints [0.1, 5], screen 1 x 1
DefaultCamera ==
    /\ position = [x |-> 0, y |-> 0]
    /\ zoom = S
    /\ minZoom = S \div 10
    /\ maxZoom = 5 * S
    /\ screenWidth = LS
    /\ screenHeight = LS

NoForceCall == forceArgs = [r |-> 0, a |-> 0]

\* a null reference to a GPU object
Null == [kind |-> "null", id |-> 0]

\* no drag gesture was begun
NoGesture ==
    [p0 |-> [x |-> 0, y |-> 0], pn |-> [x |-> 0, y |-> 0],
     focus |-> [x |-> 0, y |-> 0], zoom |-> 0, moves |-> 0, steady |-> FALSE,
     down |-> FALSE]

\* an InputHandler as its field initializers leave it, nothing attached
NoInput ==
    /\ isMouseDown = FALSE
    /\ lastMousePos = [x |-> 0, y |-> 0]
    /\ mouseButton = -1
    /\ cursor = "grab"
    /\ listeners = {}
    /\ gesture = NoGesture

\* a WebGLRenderer as its field initializers leave it
NoRenderer ==
    /\ rendererRef = FALSE
    /\ program = Null
    /\ positionBuffer = Null
    /\ colorBuffer = Null
    /\ sizeBuffer = Null
    /\ uniformLocs = FALSE

\* a WebGL context in which nothing was created
NoGL ==
    /\ glLive = {}
    /\ glDeletes = <<>>
    /\ glCommands = 0
    /\ glNext = 0

\* the Canvas before its initialization effect
NoFrame ==
    /\ cameraRef = FALSE
    /\ mounted = FALSE
    /\ animating = FALSE
    /\ lastTime = 0
    /\ calls = <<>>
    /\ clock = 0

\* useState([]), useState(false) of the InteractionMatrix
NoEditor ==
    /\ pendingMatrix = <<>>
    /\ hasChanges = FALSE

NoUi == NoInput /\ NoRenderer /\ NoGL /\ NoFrame /\ NoEditor

\* the engine variables are those of a ParticleSystem just constructed
EngineBuilt(e) ==
    /\ built = TRUE
    /\ particleCount = e.particleCount
    /\ colorCount = e.colorCount
    /\ worldSize = e.worldSize
    /\ sensingRadius = e.sensingRadius
    /\ positions = e.positions
    /\ velocities = e.velocities
    /\ forces = e.forces
    /\ colorIndices = e.colorIndices
    /\ colors = e.colors
    /\ sizes = e.sizes
    /\ colorMatrix = e.colorMatrix
    /\ pre = e

-----------------------------------------------------------------------------
(* The engine under ticks and its engine-wide setters.                     *)

\* particle and colour counts of the engines the model builds
ParticleCounts == {2}

ColorCounts == {2}

Init ==
    /\ \E n \in ParticleCounts, cc \in ColorCounts,
          w \in WorldSizes, r \in SensingRadii :
         \E rp \in [Idx(2 * n) -> RandomSamples],
            rc \in [Idx(n) -> RandomSamples],
            rm \in [OffDiagonal(cc) -> RandomSamples] :
            EngineBuilt(NewParticleSystem(Config(n, cc, w, w, r), rp, rc, rm))
    /\ props = DefaultProps
    /\ DefaultCamera
    /\ NoForceCall
    /\ NoUi
    /\ lastOp = Op("new", 0, 0, 0)
    /\ ret = 0
    /\ thrown = ""
    /\ steps = 0

\* an engine operation that takes This to e
EngineStep(e, op) ==
    /\ built
    /\ steps < MaxSteps
    /\ EngineIs(e)
    /\ pre' = This
    /\ lastOp' = op
    /\ thrown' = ""
    /\ steps' = steps + 1
    /\ UNCHANGED <<cameraVars, forceArgs, uiVars>>

Update(dt) ==
    /\ EngineStep(update(This, dt), Op("update", dt, 0, 0))
    /\ ret' = 0
    /\ UNCHANGED props

SetSensingRadius(r) ==
    /\ EngineStep(setSensingRadius(This, r), Op("setSensingRadius", r, 0, 0))
    /\ ret' = 0
    /\ UNCHANGED props

SetWorldSize(w, h) ==
    /\ EngineStep(setWorldSize(This, w, h), Op("setWorldSize", w, h, 0))
    /\ ret' = 0
    /\ UNCHANGED props

\* radii and world sizes given to the setters
SetterRadii == {0}

SetterWorldSizes == {6 * LS}

Next ==
    \/ \E dt \in DeltaTimes : Update(dt)
    \/ \E r \in SetterRadii : SetSensingRadius(r)
    \/ \E w \in SetterWorldSizes : SetWorldSize(w, w)

Spec == Init /\ [][Next]_vars

-----------------------------------------------------------------------------
(* The rule matrix under its setter, its getter and randomizeRules.        *)

\* colour indices given to setColorRule / getColorRule: in and out of range
RuleIndices == -1 .. 2

\* strengths given to setColorRule
RuleStrengths == {-5 * S, S \div 2, 2 * S}

MaxRuleSteps == 2

InitRules ==
    /\ \E rm \in [OffDiagonal(2) -> RandomSamples] :
         EngineBuilt(NewParticleSystem(Config(1, 2, 8 * LS, 8 * LS, 3 * LS),
                                       [k \in Idx(2) |-> S \div 2],
                                       [i \in Idx(1) |-> S \div 2], rm))
    /\ props = DefaultProps
    /\ DefaultCamera
    /\ NoForceCall
    /\ NoUi
    /\ lastOp = Op("new", 0, 0, 0)
    /\ ret = 0
    /\ thrown = ""
    /\ steps = 0

RuleStep(e, op) ==
    /\ built
    /\ steps < MaxRuleSteps
    /\ EngineIs(e)
    /\ pre' = This
    /\ lastOp' = op
    /\ thrown' = ""
    /\ steps' = steps + 1
    /\ UNCHANGED <<props, cameraVars, forceArgs, uiVars>>

SetColorRule(a, b, v) ==
    /\ RuleStep(setColorRule(This, a, b, v), Op("setColorRule", a, b, v))
    /\ ret' = 0

GetColorRule(a, b) ==
    /\ RuleStep(This, Op("getColorRule", a, b, 0))
    /\ ret' = getColorRule(This, a, b)

RandomizeRules ==
    \E rm \in [OffDiagonal(colorCount) -> RandomSamples] :
        /\ RuleStep(randomizeRules(This, rm), Op("randomizeRules", 0, 0, 0))
        /\ ret' = 0

NextRules ==
    \/ \E a, b \in RuleIndices, v \in RuleStrengths : SetColorRule(a, b, v)
    \/ \E a, b \in RuleIndices : GetColorRule(a, b)
    \/ RandomizeRules

SpecRules == InitRules /\ [][NextRules]_vars

-----------------------------------------------------------------------------
(* Construction of the engine from any configuration.                      *)

\* particle and colour counts given to the constructor
ConfigCounts == -1 .. 1

\* sensing radii given to the constructor; 0 takes the default
ConfigRadii == {0, 3 * LS}

MaxBuilds == 2

InitConstruct ==
    /\ NoEngine
    /\ props = DefaultProps
    /\ DefaultCamera
    /\ NoForceCall
    /\ NoUi
    /\ lastOp = NoOp
    /\ ret = 0
    /\ thrown = ""
    /\ pre = 0
    /\ steps = 0

\* new ParticleSystem(config): the instance replaces the one held before;
\* when the constructor throws, the reference keeps what it held
Construct(config) ==
    /\ steps < MaxBuilds
    /\ steps' = steps + 1
    /\ lastOp' = Op("new", config.particleCount, config.colorCount, 0)
    /\ ret' = 0
    /\ UNCHANGED <<props, cameraVars, forceArgs, pre, uiVars>>
    /\ IF ConstructorThrows(config)
       THEN /\ thrown' = "RangeError"
            /\ UNCHANGED engineVars
       ELSE /\ thrown' = ""
            /\ \E rp \in [Idx(2 * config.particleCount) -> RandomSamples],
                  rc \in [Idx(config.particleCount) -> RandomSamples],
                  rm \in [OffDiagonal(config.colorCount) -> RandomSamples] :
                  EngineIs(NewParticleSystem(config, rp, rc, rm))

\* update on the engine held, whatever configuration built it
UpdateBuilt(dt) ==
    /\ built
    /\ lastOp.op = "new"
    /\ EngineIs(update(This, dt))
    /\ lastOp' = Op("update", dt, 0, 0)
    /\ pre' = This
    /\ ret' = 0
    /\ thrown' = ""
    /\ UNCHANGED <<props, cameraVars, forceArgs, steps, uiVars>>

NextConstruct ==
    \/ \E n, cc \in ConfigCounts, r \in ConfigRadii :
          Construct(Config(n, cc, 8 * LS, 8 * LS, r))
    \/ \E dt \in DeltaTimes : UpdateBuilt(dt)

SpecConstruct == InitConstruct /\ [][NextConstruct]_vars

-----------------------------------------------------------------------------
(* particleLifeForce called directly on any normalized distance.           *)

\* the largest normalized distance tried, 1.2 in units of 1 / S
MaxForceR == 2520

ForceRs == 0 .. MaxForceR

ForceAs == {RandomRule(0), -S, DiagonalRule, 0, S \div 2, S}

InitForce ==
    /\ NoEngine
    /\ props = DefaultProps
    /\ DefaultCamera
    /\ forceArgs \in [r : ForceRs, a : ForceAs]
    /\ NoUi
    /\ lastOp = NoOp
    /\ ret = 0
    /\ thrown = ""
    /\ pre = 0
    /\ steps = 0

CallForce ==
    /\ lastOp.op = "none"
    /\ ret' = particleLifeForce(forceArgs.r, forceArgs.a)
    /\ lastOp' = Op("particleLifeForce", forceArgs.r, forceArgs.a, 0)
    /\ UNCHANGED <<engineVars, props, cameraVars, forceArgs, thrown, pre,
                   steps, uiVars>>

NextForce == CallForce

SpecForce == InitForce /\ [][NextForce]_vars

-----------------------------------------------------------------------------
(* The Canvas: the engine it mounts and the effect that runs when the      *)
(* control surface changes a prop (Canvas.tsx, second revision).           *)

RECURSIVE ApplyColorMatrix(_, _, _)
\* for i, for j: particleSystem.setColorRule(i, j, colorMatrix[i][j]),
\* from cell k on
ApplyColorMatrix(e, m, k) ==
    IF k >= e.colorCount * e.colorCount THEN e
    ELSE ApplyColorMatrix(
             setColorRule(e, k \div e.colorCount, k % e.colorCount, m[k]),
             m, k + 1)

\* the parameter-update effect: the rule matrix and the sensing radius are
\* written to the engine; setForceScale, setMaxSpeed and setDamping are
\* commented out
ParamsEffect(e, p) ==
    setSensingRadius(ApplyColorMatrix(e, p.colorMatrix, 0), p.sensingRadius)

\* the initialization effect: new ParticleSystem from the props, then the
\* rule matrix of the props
MountEngine(p, n, cc, w, rp, rc, rm) ==
    ApplyColorMatrix(
        NewParticleSystem(Config(n, cc, w, w, p.sensingRadius), rp, rc, rm),
        p.colorMatrix, 0)

\* a rule matrix prop for two colours with the off-diagonal cells u, v
PropMatrix(u, v) ==
    [k \in Idx(4) |-> IF k \div 2 = k % 2 THEN DiagonalRule
                      ELSE IF k = 1 THEN u ELSE v]

\* prop values the control surface supplies
CanvasProps ==
    {[forceScale |-> 150, maxSpeed |-> 120, damping |-> 98,
      sensingRadius |-> 10 * LS, colorMatrix |-> PropMatrix(S, -S)],
     [forceScale |-> 300, maxSpeed |-> 120, damping |-> 98,
      sensingRadius |-> 10 * LS, colorMatrix |-> PropMatrix(S, -S)],
     [forceScale |-> 150, maxSpeed |-> 60, damping |-> 90,
      sensingRadius |-> 10 * LS, colorMatrix |-> PropMatrix(S, -S)],
     [forceScale |-> 150, maxSpeed |-> 120, damping |-> 98,
      sensingRadius |-> 3 * LS, colorMatrix |-> PropMatrix(-S, S \div 2)]}

InitCanvas ==
    /\ props \in CanvasProps
    /\ \E w \in WorldSizes :
         \E rp \in [Idx(4) -> RandomSamples],
            rc \in [Idx(2) -> RandomSamples],
            rm \in [OffDiagonal(2) -> {0}] :
            EngineBuilt(MountEngine(props, 2, 2, w, rp, rc, rm))
    /\ DefaultCamera
    /\ NoForceCall
    /\ NoUi
    /\ lastOp = Op("new", 0, 0, 0)
    /\ ret = 0
    /\ thrown = ""
    /\ steps = 0

\* the control surface changes props to p; the parameter-update effect runs
ChangeProps(p) ==
    /\ p # props
    /\ EngineStep(ParamsEffect(This, p), Op("props", 0, 0, 0))
    /\ props' = p
    /\ ret' = 0

NextCanvas ==
    \/ \E p \in CanvasProps : ChangeProps(p)
    \/ \E dt \in DeltaTimes : Update(dt)

SpecCanvas == InitCanvas /\ [][NextCanvas]_vars

-----------------------------------------------------------------------------
(* Camera.                                                                 *)

\* Math.max(lo, Math.min(hi, z))
ClampZoom(z, lo, hi) ==
    LET m == IF hi < z THEN hi ELSE z
    IN  IF lo > m THEN lo ELSE m

\* new Camera(x, y, zoom): constraints [0.1, 5], screen 1 x 1
NewCamera(x, y, z) ==
    [position |-> [x |-> x, y |-> y],
     zoom |-> ClampZoom(z, S \div 10, 5 * S),
     minZoom |-> S \div 10,
     maxZoom |-> 5 * S,
     screenWidth |-> LS,
     screenHeight |-> LS]

\* Camera.setScreenSize(width, height)
setScreenSize(c, width, height) ==
    [c EXCEPT !.screenWidth = width, !.screenHeight = height]

\* Camera.worldToScreen(worldX, worldY)
worldToScreen(c, worldX, worldY) ==
    [x |-> Add(MulDiv(Sub(worldX, c.position.x), c.zoom, S),
               TruncDiv(c.screenWidth, 2)),
     y |-> Add(MulDiv(Sub(worldY, c.position.y), c.zoom, S),
               TruncDiv(c.screenHeight, 2))]

screenToWorldNoFocus(c, screenX, screenY) ==
    [x |-> MulDiv(Sub(screenX, TruncDiv(c.screenWidth, 2)), S, c.zoom),
     y |-> MulDiv(Sub(screenY, TruncDiv(c.screenHeight, 2)), S, c.zoom)]

\* Camera.screenToWorld(screenX, screenY)
screenToWorld(c, screenX, screenY) ==
    [x |-> Add(MulDiv(Sub(screenX, TruncDiv(c.screenWidth, 2)), S, c.zoom),
               c.position.x),
     y |-> Add(MulDiv(Sub(screenY, TruncDiv(c.screenHeight, 2)), S, c.zoom),
               c.position.y)]

panInverted(c, deltaScreenX, deltaScreenY) ==
    [c EXCEPT !.position =
        [x |-> Add(c.position.x, MulDiv(deltaScreenX, S, c.zoom)),
         y |-> Add(c.position.y, MulDiv(deltaScreenY, S, c.zoom))]]

\* Camera.pan(deltaScreenX, deltaScreenY)
pan(c, deltaScreenX, deltaScreenY) ==
    LET worldDeltaX == MulDiv(deltaScreenX, S, c.zoom)
        worldDeltaY == MulDiv(deltaScreenY, S, c.zoom)
    IN  [c EXCEPT !.position = [x |-> Sub(c.position.x, worldDeltaX),
                                y |-> Sub(c.position.y, worldDeltaY)]]

zoomAtNoAnchor(c, screenX, screenY, zoomDelta) ==
    [c EXCEPT !.zoom = ClampZoom(MulDiv(c.zoom, zoomDelta, S), c.minZoom, c.maxZoom)]

\* Camera.zoomAt(screenX, screenY, zoomDelta)
zoomAt(c, screenX, screenY, zoomDelta) ==
    LET worldPos == screenToWorld(c, screenX, screenY)
        newZoom == ClampZoom(MulDiv(c.zoom, zoomDelta, S), c.minZoom, c.maxZoom)
        c1 == [c EXCEPT !.zoom = newZoom]
        newWorldPos == screenToWorld(c1, screenX, screenY)
    IN  [c1 EXCEPT !.position =
            [x |-> Add(c.position.x, Sub(worldPos.x, newWorldPos.x)),
             y |-> Add(c.position.y, Sub(worldPos.y, newWorldPos.y))]]

\* Camera.setZoom(newZoom)
setZoom(c, newZoom) ==
    [c EXCEPT !.zoom = ClampZoom(newZoom, c.minZoom, c.maxZoom)]

\* Camera.reset()
reset(c) == [c EXCEPT !.position = [x |-> 0, y |-> 0], !.zoom = S]

\* Camera.moveTo(targetX, targetY, speed)
moveTo(c, targetX, targetY, speed) ==
    [c EXCEPT !.position =
        [x |-> Add(c.position.x, MulDiv(Sub(targetX, c.position.x), speed, S)),
         y |-> Add(c.position.y, MulDiv(Sub(targetY, c.position.y), speed, S))]]

\* Camera.setZoomConstraints(minZoom, maxZoom)
setZoomConstraints(c, lo, hi) ==
    [c EXCEPT !.minZoom = lo, !.maxZoom = hi,
              !.zoom = ClampZoom(c.zoom, lo, hi)]

\* the camera variables are the fields of the instance c
CameraBuilt(c) ==
    /\ position = c.position
    /\ zoom = c.zoom
    /\ minZoom = c.minZoom
    /\ maxZoom = c.maxZoom
    /\ screenWidth = c.screenWidth
    /\ screenHeight = c.screenHeight
    /\ pre = c

\* the camera variables take the fields of the instance c
CameraIs(c) ==
    /\ position' = c.position
    /\ zoom' = c.zoom
    /\ minZoom' = c.minZoom
    /\ maxZoom' = c.maxZoom
    /\ screenWidth' = c.screenWidth
    /\ screenHeight' = c.screenHeight

-----------------------------------------------------------------------------
(* The camera under its operations.                                        *)

\* zoom values given to the constructor and to setZoom
ZoomInputs == {S \div 100, S, 3 * S, 20 * S}

\* zoom multipliers: the wheel (0.9, 1.1) and a doubling
ZoomDeltas == {(9 * S) \div 10, (11 * S) \div 10, 2 * S}

\* screen points, in pixels: the cursor of a zoom, the target of a move
ScreenPoints == {<<400, 300>>, <<110, 95>>, <<800, 600>>}

\* pan deltas, in pixels
PanDeltas == {<<10, -5>>, <<-3, 7>>}

\* zoom constraints: those of the Canvas, [0.1, 10], and [2, 5]
ZoomConstraints == {<<S \div 10, 10 * S>>, <<2 * S, 5 * S>>}

\* screen sizes, in pixels
ScreenSizes == {<<800, 600>>}

MaxCameraSteps == 3

InitCamera ==
    /\ NoEngine
    /\ props = DefaultProps
    /\ \E z \in ZoomInputs : CameraBuilt(NewCamera(0, 0, z))
    /\ NoForceCall
    /\ NoUi
    /\ lastOp = Op("new", 0, 0, 0)
    /\ ret = 0
    /\ thrown = ""
    /\ steps = 0

\* a camera operation that takes Cam to c
CameraStep(c, op) ==
    /\ steps < MaxCameraSteps
    /\ CameraIs(c)
    /\ pre' = Cam
    /\ lastOp' = op
    /\ thrown' = ""
    /\ steps' = steps + 1
    /\ UNCHANGED <<engineVars, props, forceArgs, uiVars>>

SetScreenSize(w, h) ==
    /\ CameraStep(setScreenSize(Cam, w * LS, h * LS), Op("setScreenSize", w, h, 0))
    /\ ret' = 0

Pan(dx, dy) ==
    /\ CameraStep(pan(Cam, dx * LS, dy * LS), Op("pan", dx * LS, dy * LS, 0))
    /\ ret' = 0

ZoomAt(sx, sy, k) ==
    /\ CameraStep(zoomAt(Cam, sx * LS, sy * LS, k),
                  Op("zoomAt", sx * LS, sy * LS, k))
    /\ ret' = 0

SetZoom(z) ==
    /\ CameraStep(setZoom(Cam, z), Op("setZoom", z, 0, 0))
    /\ ret' = 0

SetZoomConstraints(lo, hi) ==
    /\ CameraStep(setZoomConstraints(Cam, lo, hi),
                  Op("setZoomConstraints", lo, hi, 0))
    /\ ret' = 0

Reset ==
    /\ CameraStep(reset(Cam), Op("reset", 0, 0, 0))
    /\ ret' = 0

MoveTo(tx, ty) ==
    /\ CameraStep(moveTo(Cam, tx * LS, ty * LS, S \div 10),
                  Op("moveTo", tx * LS, ty * LS, S \div 10))
    /\ ret' = 0

NextCamera ==
    \/ \E s \in ScreenSizes : SetScreenSize(s[1], s[2])
    \/ \E d \in PanDeltas : Pan(d[1], d[2])
    \/ \E p \in ScreenPoints, k \in ZoomDeltas : ZoomAt(p[1], p[2], k)
    \/ \E z \in ZoomInputs : SetZoom(z)
    \/ \E c \in ZoomConstraints : SetZoomConstraints(c[1], c[2])
    \/ Reset
    \/ \E p \in ScreenPoints : MoveTo(p[1], p[2])

SpecCamera == InitCamera /\ [][NextCamera]_vars

-----------------------------------------------------------------------------
(* InputHandler (the Input Mapper).  Mouse positions are relative to the   *)
(* canvas (getMousePos); listeners are named by their target and event     *)
(* type, since each is the one bound function made in the constructor.     *)

\* the InputHandler instance, with the canvas cursor and the listeners it
\* has attached, as a record
Input ==
    [isMouseDown |-> isMouseDown, lastMousePos |-> lastMousePos,
     mouseButton |-> mouseButton, cursor |-> cursor, listeners |-> listeners]

\* the listeners of InputHandler.addEventListeners
HandlerListeners ==
    {<<"canvas", "mousedown">>, <<"canvas", "mousemove">>,
     <<"canvas", "mouseup">>, <<"canvas", "wheel">>,
     <<"canvas", "contextmenu">>, <<"window", "mouseup">>}

\* InputHandler.addEventListeners()
addEventListeners(in) ==
    [in EXCEPT !.listeners = in.listeners \cup HandlerListeners]

removeCanvasListeners(in) ==
    [in EXCEPT !.listeners =
        in.listeners \ {l \in HandlerListeners : l[1] = "canvas"}]

\* InputHandler.removeEventListeners()
removeEventListeners(in) ==
    [in EXCEPT !.listeners = in.listeners \ HandlerListeners]

\* new InputHandler(camera, canvas)
NewInputHandler(in) ==
    addEventListeners([in EXCEPT !.isMouseDown = FALSE,
                                 !.lastMousePos = [x |-> 0, y |-> 0],
                                 !.mouseButton = -1])

\* InputHandler.handleMouseDown(event)
handleMouseDown(in, x, y, button) ==
    [in EXCEPT !.isMouseDown = TRUE, !.mouseButton = button,
               !.lastMousePos = [x |-> x, y |-> y], !.cursor = "grabbing"]

\* handleMouseMove without this.lastMousePos = currentPos
handleMouseMoveStale(in, c, x, y) ==
    IF in.isMouseDown
    THEN [input |-> in,
          camera |-> pan(c, Sub(x, in.lastMousePos.x),
                            Sub(y, in.lastMousePos.y))]
    ELSE [input |-> [in EXCEPT !.cursor = "grab"], camera |-> c]

handleMouseMoveAlways(in, c, x, y) ==
    [input |-> [in EXCEPT !.lastMousePos = [x |-> x, y |-> y]],
     camera |-> pan(c, Sub(x, in.lastMousePos.x), Sub(y, in.lastMousePos.y))]

\* InputHandler.handleMouseMove(event): the handler and the camera after it
handleMouseMove(in, c, x, y) ==
    IF in.isMouseDown
    THEN [input |-> [in EXCEPT !.lastMousePos = [x |-> x, y |-> y]],
          camera |-> pan(c, Sub(x, in.lastMousePos.x),
                            Sub(y, in.lastMousePos.y))]
    ELSE [input |-> [in EXCEPT !.cursor = "grab"], camera |-> c]

\* InputHandler.handleMouseUp(event)
handleMouseUp(in) ==
    [in EXCEPT !.isMouseDown = FALSE, !.mouseButton = -1, !.cursor = "grab"]

\* the factors of the two wheel directions exchanged
zoomFactorInverted(deltaY) ==
    IF deltaY > 0 THEN (11 * S) \div 10 ELSE (9 * S) \div 10

\* the zoom factor of a wheel event
zoomFactor(deltaY) == IF deltaY > 0 THEN (9 * S) \div 10 ELSE (11 * S) \div 10

\* InputHandler.handleWheel(event): the camera after it
handleWheel(c, x, y, deltaY) == zoomAt(c, x, y, zoomFactor(deltaY))

\* InputHandler.dispose()
disposeInput(in) == removeEventListeners(in)

\* InputHandler.setEnabled(enabled)
setEnabled(in, enabled) ==
    IF enabled
    THEN [addEventListeners(in) EXCEPT !.cursor = "grab"]
    ELSE [removeEventListeners(in) EXCEPT !.cursor = "default"]

\* the input variables take the fields of in
InputIs(in) ==
    /\ isMouseDown' = in.isMouseDown
    /\ lastMousePos' = in.lastMousePos
    /\ mouseButton' = in.mouseButton
    /\ cursor' = in.cursor
    /\ listeners' = in.listeners

-----------------------------------------------------------------------------
(* The Input Mapper under the events of the pointer.  An event reaches a   *)
(* handler only through a listener that is attached.                       *)

\* pointer positions, in pixels
InputPoints == {<<100, 100>>, <<110, 95>>, <<125, 90>>}

\* mouse buttons: left, right
MouseButtons == {0, 2}

\* wheel deltaY values
WheelDeltas == {-100, 0, 100}

\* zoom of the camera the handler drives
InputZooms == {S, 2 * S}

MaxInputSteps == 4

Attached(target, type) == <<target, type>> \in listeners

Flag(b) == IF b THEN 1 ELSE 0

InitInput ==
    /\ NoEngine
    /\ props = DefaultProps
    /\ \E z \in InputZooms :
         CameraBuilt(setZoomConstraints(
             setScreenSize(NewCamera(0, 0, z), 800 * LS, 600 * LS),
             S \div 10, 10 * S))
    /\ NoForceCall
    /\ isMouseDown = FALSE
    /\ lastMousePos = [x |-> 0, y |-> 0]
    /\ mouseButton = -1
    /\ cursor = "grab"
    /\ listeners = HandlerListeners
    /\ gesture = NoGesture
    /\ NoRenderer
    /\ NoGL
    /\ NoFrame
    /\ NoEditor
    /\ lastOp = Op("new", 0, 0, 0)
    /\ ret = 0
    /\ thrown = ""
    /\ steps = 0

\* an event or a call that takes the handler to in and the camera to c
InputStep(in, c, op) ==
    /\ steps < MaxInputSteps
    /\ InputIs(in)
    /\ CameraIs(c)
    /\ pre' = [input |-> Input, camera |-> Cam]
    /\ lastOp' = op
    /\ thrown' = ""
    /\ steps' = steps + 1
    /\ UNCHANGED <<engineVars, props, forceArgs, rendererVars, glVars,
                   frameVars, editorVars>>

\* the pointer is pressed on the canvas at (x, y)
MouseDown(x, y, button) ==
    /\ InputStep(IF Attached("canvas", "mousedown")
                 THEN handleMouseDown(Input, x * LS, y * LS, button)
                 ELSE Input,
                 Cam,
                 Op("mousedown", x * LS, y * LS,
                    Flag(Attached("canvas", "mousedown"))))
    /\ gesture' = IF Attached("canvas", "mousedown")
                  THEN [p0 |-> [x |-> x * LS, y |-> y * LS],
                        pn |-> [x |-> x * LS, y |-> y * LS],
                        focus |-> position, zoom |-> zoom, moves |-> 0,
                        steady |-> TRUE, down |-> TRUE]
                  ELSE gesture
    /\ ret' = 0

\* the pointer moves over the canvas to (x, y)
MouseMove(x, y) ==
    /\ LET after == IF Attached("canvas", "mousemove")
                    THEN handleMouseMove(Input, Cam, x * LS, y * LS)
                    ELSE [input |-> Input, camera |-> Cam]
       IN  InputStep(after.input, after.camera,
                     Op("mousemove", x * LS, y * LS,
                        Flag(Attached("canvas", "mousemove"))))
    /\ gesture' = IF Attached("canvas", "mousemove") /\ isMouseDown
                  THEN [gesture EXCEPT !.pn = [x |-> x * LS, y |-> y * LS],
                                       !.moves = @ + 1]
                  ELSE gesture
    /\ ret' = 0

\* the pointer is released over the canvas (the event then bubbles to the
\* window) or elsewhere in the window
MouseUp(target) ==
    /\ LET delivered ==
               \/ target = "canvas" /\ Attached("canvas", "mouseup")
               \/ Attached("window", "mouseup")
       IN  InputStep(IF delivered THEN handleMouseUp(Input) ELSE Input, Cam,
                     Op("mouseup", 0, 0, Flag(delivered)))
    /\ ret' = 0
    /\ UNCHANGED gesture

\* the wheel turns at (x, y)
Wheel(x, y, deltaY) ==
    /\ InputStep(Input,
                 IF Attached("canvas", "wheel")
                 THEN handleWheel(Cam, x * LS, y * LS, deltaY)
                 ELSE Cam,
                 Op("wheel", x * LS, y * LS, Flag(Attached("canvas", "wheel"))))
    /\ gesture' = IF Attached("canvas", "wheel")
                  THEN [gesture EXCEPT !.steady = FALSE]
                  ELSE gesture
    /\ ret' = deltaY

\* the context-menu gesture: handleContextMenu only prevents the default
ContextMenu ==
    /\ InputStep(Input, Cam,
                 Op("contextmenu", 0, 0, Flag(Attached("canvas", "contextmenu"))))
    /\ ret' = 0
    /\ UNCHANGED gesture

DisposeInput ==
    /\ InputStep(disposeInput(Input), Cam, Op("dispose", 0, 0, 0))
    /\ ret' = 0
    /\ gesture' = [gesture EXCEPT !.down = FALSE]

SetEnabled(enabled) ==
    /\ InputStep(setEnabled(Input, enabled), Cam,
                 Op("setEnabled", Flag(enabled), 0, 0))
    /\ ret' = 0
    /\ gesture' = [gesture EXCEPT !.down = @ /\ enabled]

NextInput ==
    \/ \E p \in InputPoints, b \in MouseButtons : MouseDown(p[1], p[2], b)
    \/ \E p \in InputPoints : MouseMove(p[1], p[2])
    \/ \E t \in {"canvas", "window"} : MouseUp(t)
    \/ \E p \in InputPoints, d \in WheelDeltas : Wheel(p[1], p[2], d)
    \/ ContextMenu
    \/ DisposeInput
    \/ \E b \in BOOLEAN : SetEnabled(b)

SpecInput == InitInput /\ [][NextInput]_vars

-----------------------------------------------------------------------------
(* WebGLRenderer and the WebGL context it draws with.                      *)

\* the WebGL context as a record
GL ==
    [live |-> glLive, deletes |-> glDeletes, commands |-> glCommands,
     next |-> glNext]

\* the WebGLRenderer instance as a record of its fields
Renderer ==
    [program |-> program, positionBuffer |-> positionBuffer,
     colorBuffer |-> colorBuffer, sizeBuffer |-> sizeBuffer,
     uniformLocs |-> uniformLocs]

\* the fields of a WebGLRenderer before its constructor body
FreshRenderer ==
    [program |-> Null, positionBuffer |-> Null, colorBuffer |-> Null,
     sizeBuffer |-> Null, uniformLocs |-> FALSE]

\* the object the next gl.createShader / createProgram / createBuffer makes
NewHandle(g, kind) == [kind |-> kind, id |-> g.next + 1]

\* gl.createShader, gl.createProgram, gl.createBuffer
createObject(g, kind) ==
    [g EXCEPT !.live = @ \cup {NewHandle(g, kind)},
              !.deletes = (NewHandle(g, kind) :> 0) @@ @,
              !.next = @ + 1]

\* gl.deleteShader, gl.deleteProgram, gl.deleteBuffer
deleteObject(g, h) ==
    [g EXCEPT !.live = @ \ {h}, !.deletes[h] = @ + 1]

\* n state-setting, upload or draw commands
issue(g, n) == [g EXCEPT !.commands = @ + n]

\* gl.isProgram(program)
isProgram(g, h) == h \in g.live

\* the steps of the constructor that can fail, "none" when none does
RendererFailures ==
    {"none", "context", "createVertexShader", "compileVertexShader",
     "createFragmentShader", "compileFragmentShader", "createProgram",
     "linkProgram", "uniformLocation", "createPositionBuffer",
     "createColorBuffer", "createSizeBuffer"}

\* WebGLRenderer.createShader(type, source): the context after it, the
\* shader and the error thrown
createShader(g, kind, createFails, compileFails) ==
    IF createFails
    THEN [gl |-> g, shader |-> Null, thrown |-> "Failed to create shader"]
    ELSE IF compileFails
         THEN [gl |-> deleteObject(createObject(g, kind), NewHandle(g, kind)),
               shader |-> Null, thrown |-> "Error compiling shader"]
         ELSE [gl |-> createObject(g, kind), shader |-> NewHandle(g, kind),
               thrown |-> ""]

\* createProgram from gl.linkProgram on: a link failure deletes the
\* program only, success deletes the two shaders
LinkProgram(vs, fs, made, prog, fail) ==
    IF fail = "linkProgram"
    THEN [gl |-> deleteObject(made, prog), program |-> Null,
          thrown |-> "Error linking program"]
    ELSE [gl |-> deleteObject(deleteObject(made, vs.shader), fs.shader),
          program |-> prog, thrown |-> ""]

\* createProgram after the fragment shader fs: gl.createProgram()
AfterFragmentShader(vs, fs, fail) ==
    IF fs.thrown # ""
    THEN [gl |-> fs.gl, program |-> Null, thrown |-> fs.thrown]
    ELSE IF fail = "createProgram"
    THEN [gl |-> fs.gl, program |-> Null,
          thrown |-> "Failed to create program"]
    ELSE LinkProgram(vs, fs, createObject(fs.gl, "program"),
                     NewHandle(fs.gl, "program"), fail)

\* createProgram after the vertex shader vs: the fragment shader
AfterVertexShader(vs, fail) ==
    IF vs.thrown # ""
    THEN [gl |-> vs.gl, program |-> Null, thrown |-> vs.thrown]
    ELSE AfterFragmentShader(
             vs,
             createShader(vs.gl, "fragmentShader",
                          fail = "createFragmentShader",
                          fail = "compileFragmentShader"),
             fail)

\* WebGLRenderer.createProgram(): the context after it, the program and the
\* error thrown
createProgram(g, fail) ==
    AfterVertexShader(
        createShader(g, "vertexShader", fail = "createVertexShader",
                     fail = "compileVertexShader"),
        fail)

\* the GPU objects a renderer holds in its buffer and program fields
Held(r) == {r.positionBuffer, r.colorBuffer, r.sizeBuffer, r.program} \ {Null}

\* gl.deleteBuffer / gl.deleteProgram on each object of hs
deleteObjects(g, hs) ==
    [g EXCEPT !.live = @ \ hs,
              !.deletes = [h \in DOMAIN @ |-> IF h \in hs THEN @[h] + 1
                                                         ELSE @[h]]]

disposeKeepsHandles(r, g) ==
    [renderer |-> r, gl |-> deleteObjects(g, Held(r))]

\* WebGLRenderer.dispose(): the renderer and the context after it; each
\* field that is not null has its object deleted and is set to null
disposeRenderer(r, g) ==
    [renderer |-> [r EXCEPT !.positionBuffer = Null, !.colorBuffer = Null,
                            !.sizeBuffer = Null, !.program = Null],
     gl |-> deleteObjects(g, Held(r))]

\* gl.createBuffer() for one field, null when it fails
CreateBuffer(st, field, fails) ==
    IF fails THEN st
    ELSE [renderer |-> [st.renderer EXCEPT ![field] = NewHandle(st.gl, "buffer")],
          gl |-> createObject(st.gl, "buffer")]

\* the constructor after the three gl.createBuffer(): the null check and
\* setupGL (enable, blendFunc, clearColor)
AfterBuffers(bs) ==
    IF \/ bs.renderer.positionBuffer = Null
       \/ bs.renderer.colorBuffer = Null
       \/ bs.renderer.sizeBuffer = Null
    THEN [renderer |-> bs.renderer, gl |-> bs.gl,
          thrown |-> "Failed to create buffers"]
    ELSE [renderer |-> bs.renderer, gl |-> issue(bs.gl, 3), thrown |-> ""]

\* the constructor after createProgram: locations, then buffers
AfterProgram(cp, fail) ==
    IF cp.thrown # ""
    THEN [renderer |-> FreshRenderer, gl |-> cp.gl, thrown |-> cp.thrown]
    ELSE IF fail = "uniformLocation"
    THEN [renderer |-> [FreshRenderer EXCEPT !.program = cp.program],
          gl |-> cp.gl, thrown |-> "Failed to get uniform locations"]
    ELSE AfterBuffers(
             CreateBuffer(CreateBuffer(CreateBuffer(
                 [renderer |-> [FreshRenderer EXCEPT !.program = cp.program,
                                                     !.uniformLocs = TRUE],
                  gl |-> cp.gl],
                 "positionBuffer", fail = "createPositionBuffer"),
                 "colorBuffer", fail = "createColorBuffer"),
                 "sizeBuffer", fail = "createSizeBuffer"))

\* the try block of the constructor: renderer, context and error thrown
ConstructorBody(g, fail) == AfterProgram(createProgram(g, fail), fail)

\* the renderer and context d with the error err rethrown
Rethrow(d, err) == [renderer |-> d.renderer, gl |-> d.gl, thrown |-> err]

\* the catch block of the constructor: dispose, then rethrow
Catch(body) ==
    IF body.thrown # ""
    THEN Rethrow(disposeRenderer(body.renderer, body.gl), body.thrown)
    ELSE body

\* new WebGLRenderer(canvas): the instance, the context and the error thrown
NewWebGLRenderer(g, fail) ==
    IF fail = "context"
    THEN [renderer |-> FreshRenderer, gl |-> g,
          thrown |-> "WebGL2 not supported"]
    ELSE Catch(ConstructorBody(g, fail))

\* WebGLRenderer.resize(width, height): the context after it (viewport,
\* useProgram, uniform2f)
resize(r, g) ==
    IF r.program = Null \/ ~isProgram(g, r.program) THEN g
    ELSE IF ~r.uniformLocs THEN g
    ELSE issue(g, 3)

\* WebGLRenderer.render(...): the context after it (clear, useProgram,
\* three uniforms, three buffer uploads of four calls each, drawArrays)
render(r, g) ==
    IF r.program = Null \/ ~isProgram(g, r.program) THEN g
    ELSE IF \/ r.positionBuffer = Null
            \/ r.colorBuffer = Null
            \/ r.sizeBuffer = Null
    THEN g
    ELSE IF ~r.uniformLocs THEN g
    ELSE issue(g, 18)

\* the renderer variables take the fields of r
RendererIs(r) ==
    /\ program' = r.program
    /\ positionBuffer' = r.positionBuffer
    /\ colorBuffer' = r.colorBuffer
    /\ sizeBuffer' = r.sizeBuffer
    /\ uniformLocs' = r.uniformLocs

\* the context variables take the fields of g
GLIs(g) ==
    /\ glLive' = g.live
    /\ glDeletes' = g.deletes
    /\ glCommands' = g.commands
    /\ glNext' = g.next

-----------------------------------------------------------------------------
(* The renderer under construction (failing at any step), resize, render   *)
(* and dispose.                                                            *)

MaxRendererSteps == 4

InitRenderer ==
    /\ NoEngine
    /\ props = DefaultProps
    /\ DefaultCamera
    /\ NoForceCall
    /\ NoUi
    /\ lastOp = NoOp
    /\ ret = 0
    /\ thrown = ""
    /\ pre = 0
    /\ steps = 0

\* a renderer operation that leaves the renderer r and the context g
RendererStep(r, g, op) ==
    /\ steps < MaxRendererSteps
    /\ RendererIs(r)
    /\ GLIs(g)
    /\ pre' = [renderer |-> Renderer, gl |-> GL]
    /\ lastOp' = op
    /\ steps' = steps + 1
    /\ UNCHANGED <<engineVars, props, cameraVars, forceArgs, inputVars,
                   frameVars, editorVars>>

\* the caller of the constructor gets the instance unless it threw
Constructed(made) ==
    /\ RendererStep(made.renderer, made.gl, Op("newRenderer", 0, 0, 0))
    /\ thrown' = made.thrown
    /\ rendererRef' = (made.thrown = "")

\* new WebGLRenderer(canvas), while the caller holds no instance
ConstructRenderer(fail) ==
    /\ ~rendererRef
    /\ Constructed(NewWebGLRenderer(GL, fail))
    /\ ret' = 0

ResizeRenderer ==
    /\ rendererRef
    /\ RendererStep(Renderer, resize(Renderer, GL), Op("resize", 0, 0, 0))
    /\ thrown' = ""
    /\ ret' = 0
    /\ UNCHANGED rendererRef

RenderFrame ==
    /\ rendererRef
    /\ RendererStep(Renderer, render(Renderer, GL), Op("render", 0, 0, 0))
    /\ thrown' = ""
    /\ ret' = 0
    /\ UNCHANGED rendererRef

DisposeRenderer ==
    /\ rendererRef
    /\ LET after == disposeRenderer(Renderer, GL)
       IN  RendererStep(after.renderer, after.gl, Op("disposeRenderer", 0, 0, 0))
    /\ thrown' = ""
    /\ ret' = 0
    /\ UNCHANGED rendererRef

NextRenderer ==
    \/ \E fail \in RendererFailures : ConstructRenderer(fail)
    \/ ResizeRenderer
    \/ RenderFrame
    \/ DisposeRenderer

SpecRenderer == InitRenderer /\ [][NextRenderer]_vars

-----------------------------------------------------------------------------
(* The Canvas as the Frame Driver: the initialization effect, its cleanup, *)
(* the animation callback, the resize and the keyboard handlers            *)
(* (Canvas.tsx, second revision).  Lengths of the canvas are pixels * LS,  *)
(* times are milliseconds.                                                 *)

\* everything the refs of the Canvas point at
World ==
    [engine |-> This, built |-> built, camera |-> Cam,
     cameraRef |-> cameraRef, renderer |-> Renderer,
     rendererRef |-> rendererRef, gl |-> GL, input |-> Input,
     mounted |-> mounted, animating |-> animating, lastTime |-> lastTime,
     calls |-> <<>>]

\* a call the Canvas makes on the engine, the camera or the renderer
Call(name, arg) == [name |-> name, arg |-> arg]

\* Camera.getTransformUniforms()
getTransformUniforms(c) ==
    [cameraPosition |-> <<c.position.x, c.position.y>>,
     cameraZoom |-> c.zoom,
     screenSize |-> <<c.screenWidth, c.screenHeight>>]

\* the refs before the first initialization effect; e, c, in are the
\* values the variables carry while the refs are null
NoWorld(e, c, in) ==
    [engine |-> e, built |-> FALSE, camera |-> c, cameraRef |-> FALSE,
     renderer |-> FreshRenderer, rendererRef |-> FALSE,
     gl |-> [live |-> {}, deletes |-> <<>>, commands |-> 0, next |-> 0],
     input |-> in, mounted |-> FALSE, animating |-> FALSE, lastTime |-> 0,
     calls |-> <<>>]

\* handleResize, the window being width x height
handleResize(w, width, height) ==
    [w EXCEPT
        !.gl = IF w.rendererRef THEN resize(w.renderer, @) ELSE @,
        !.calls = IF w.rendererRef
                  THEN Append(@, Call("resize", <<width, height>>))
                  ELSE @,
        !.camera = IF w.cameraRef THEN setScreenSize(@, width, height)
                   ELSE @]

\* the cleanup the initialization effect returned
cleanup(w) ==
    LET d == disposeRenderer(w.renderer, w.gl)
    IN  [w EXCEPT !.animating = FALSE,
                  !.mounted = FALSE,
                  !.input = disposeInput(@),
                  !.renderer = d.renderer,
                  !.gl = d.gl]

\* React runs the cleanup of the previous run of an effect, if that run
\* returned one
RunCleanup(w) == IF w.mounted THEN cleanup(w) ELSE w

\* Math.min((currentTime - lastTimeRef.current) / 1000, 0.1), unclamped
frameDeltaUnclamped(currentTime, last) == currentTime - last

\* Math.min((currentTime - lastTimeRef.current) / 1000, 0.1)
frameDelta(currentTime, last) ==
    IF currentTime - last < 100 THEN currentTime - last ELSE 100

\* rendererRef.current.render(positions, ..., cameraPosition, cameraZoom)
\* with the transform u read from the camera
RenderWith(w, u) ==
    [w EXCEPT
        !.gl = render(w.renderer, @),
        !.calls = @ \o <<Call("getTransformUniforms", u),
                         Call("render",
                              [positions |-> w.engine.positions,
                               cameraPosition |-> u.cameraPosition,
                               cameraZoom |-> u.cameraZoom])>>]

\* cameraRef.current.getTransformUniforms(), then render with its result
Drawn(w) == RenderWith(w, getTransformUniforms(w.camera))

\* animate with render before update: the frame draws the positions of
\* the previous tick
AnimateRenderFirst(w, currentTime, deltaTime) ==
    IF w.built /\ w.rendererRef /\ w.cameraRef
    THEN [RenderWith(w, getTransformUniforms(w.camera)) EXCEPT
            !.lastTime = currentTime,
            !.engine = update(@, deltaTime),
            !.calls = Append(@, Call("update", deltaTime)),
            !.animating = TRUE]
    ELSE [w EXCEPT !.lastTime = currentTime, !.animating = TRUE]

\* animate(currentTime), given its deltaTime
AnimateWith(w, currentTime, deltaTime) ==
    IF w.built /\ w.rendererRef /\ w.cameraRef
    THEN Drawn([w EXCEPT !.lastTime = currentTime,
                         !.engine = update(@, deltaTime),
                         !.calls = Append(@, Call("update", deltaTime)),
                         !.animating = TRUE])
    ELSE [w EXCEPT !.lastTime = currentTime, !.animating = TRUE]

\* animate(currentTime)
animate(w, currentTime) ==
    AnimateWith(w, currentTime, frameDelta(currentTime, w.lastTime))

\* the initialization effect after new WebGLRenderer returned or threw
\* (made), with the camera c it built before
AfterRenderer(w, c, made, p, width, height, rp, rc, rm, now) ==
    IF made.thrown # ""
    THEN [w EXCEPT !.camera = c, !.cameraRef = TRUE, !.gl = made.gl]
    ELSE IF ConstructorThrows(Config(p.particleCount, p.colorCount, 0, 0, 0))
    THEN \* new ParticleSystem throws: the catch returns, the renderer stays
         [w EXCEPT !.camera = c,
                   !.cameraRef = TRUE,
                   !.renderer = made.renderer,
                   !.rendererRef = TRUE,
                   !.gl = resize(made.renderer, made.gl),
                   !.calls = Append(@, Call("resize", <<width, height>>))]
    ELSE [w EXCEPT
            !.camera = c,
            !.cameraRef = TRUE,
            !.renderer = made.renderer,
            !.rendererRef = TRUE,
            !.gl = resize(made.renderer, made.gl),
            !.calls = Append(@, Call("resize", <<width, height>>)),
            !.engine = MountEngine(p, p.particleCount, p.colorCount,
                                   4 * (IF width > height THEN width
                                        ELSE height),
                                   rp, rc, rm),
            !.built = TRUE,
            !.input = NewInputHandler(@),
            !.lastTime = now,
            !.animating = TRUE,
            !.mounted = TRUE]

\* the initialization effect after its handleResize; fail is the step of
\* the renderer's construction that fails
AfterResize(w, p, width, height, fail, rp, rc, rm, now) ==
    AfterRenderer(w,
        setZoomConstraints(
            setScreenSize(NewCamera(0, 0, S), width, height),
            S \div 10, 10 * S),
        NewWebGLRenderer(w.gl, fail),
        p, width, height, rp, rc, rm, now)

\* the initialization effect, in a window of width x height at time now
initEffect(w, p, width, height, fail, rp, rc, rm, now) ==
    AfterResize(handleResize(w, width, height),
                p, width, height, fail, rp, rc, rm, now)

RECURSIVE ApplyPropMatrix(_, _, _)
\* for i, j below the colorCount prop: setColorRule(i, j, colorMatrix[i][j]),
\* from cell k of the prop on
ApplyPropMatrix(e, p, k) ==
    IF k >= p.colorCount * p.colorCount THEN e
    ELSE ApplyPropMatrix(
             setColorRule(e, k \div p.colorCount, k % p.colorCount,
                          p.colorMatrix[k]),
             p, k + 1)

\* the parameter-update effect, which runs before the initialization
\* effect when colorCount changed
paramEffect(w, p, colorCountChanged) ==
    IF colorCountChanged /\ w.built
    THEN [w EXCEPT !.engine = setSensingRadius(ApplyPropMatrix(@, p, 0),
                                               p.sensingRadius)]
    ELSE w

\* handleKeyDown(event)
handleKeyDown(c, key) ==
    IF key = "r" THEN reset(c)
    ELSE IF key = "+" THEN setZoom(c, MulDiv(c.zoom, 12, 10))
    ELSE IF key = "-" THEN setZoom(c, MulDiv(c.zoom, 10, 12))
    ELSE c

\* the camera and the handler of w after handleMouseMove returned moved
MovedTo(w, moved) == [w EXCEPT !.input = moved.input, !.camera = moved.camera]

\* a pointer or wheel event of the given type on the canvas: the handler
\* the input mapper attached for it runs, if one is attached
canvasEvent(w, type) ==
    IF <<"canvas", type>> \notin w.input.listeners THEN w
    ELSE IF type = "mousedown"
    THEN [w EXCEPT !.input = handleMouseDown(@, LS, LS, 0)]
    ELSE IF type = "mousemove"
    THEN MovedTo(w, handleMouseMove(w.input, w.camera, 2 * LS, LS \div 2))
    ELSE IF type = "mouseup"
    THEN [w EXCEPT !.input = handleMouseUp(@)]
    ELSE IF type = "wheel"
    THEN [w EXCEPT !.camera = handleWheel(@, 2 * LS, LS \div 2, -100)]
    ELSE w

\* the props of the Canvas for n particles of cc colours; the rule matrix
\* prop has cc x cc cells
LifecycleProps(n, cc) ==
    [particleCount |-> n, colorCount |-> cc,
     forceScale |-> 150, maxSpeed |-> 120, damping |-> 98,
     sensingRadius |-> 10 * LS,
     colorMatrix |-> [k \in Idx(cc * cc) |->
                        IF k \div cc = k % cc THEN DiagonalRule
                        ELSE S \div 2]]

\* <<particleCount, colorCount>> the control surface selects; its number
\* field passes parseInt of what was typed, negative numbers included
LifecycleCounts == {<<-1, 1>>, <<1, 1>>, <<2, 1>>, <<2, 2>>}

\* window sizes in pixels * LS
WindowSizes == {<<2 * LS, 2 * LS>>, <<3 * LS, 2 * LS>>}

\* failures of the renderer's construction during an initialization
LifecycleFailures == {"none", "createColorBuffer"}

\* milliseconds from the previous time reference to an animation frame's
\* timestamp; negative for a first frame that began before start() ran
FrameGaps == {-4, 16, 250}

\* keys pressed
Keys == {"r", "+", "-"}

\* pointer and wheel events on the canvas
CanvasEvents == {"mousedown", "mousemove", "mouseup", "wheel"}

\* Math.random() of the engine built by an initialization
LifecycleDraws(n) ==
    {[k \in Idx(2 * n) |-> IF k < 2 THEN S \div 2 ELSE (7 * S) \div 8]}

MaxLifecycleSteps == 3

\* the variables take the refs of w
WorldIs(w) ==
    /\ built' = w.built
    /\ particleCount' = w.engine.particleCount
    /\ colorCount' = w.engine.colorCount
    /\ worldSize' = w.engine.worldSize
    /\ sensingRadius' = w.engine.sensingRadius
    /\ positions' = w.engine.positions
    /\ velocities' = w.engine.velocities
    /\ forces' = w.engine.forces
    /\ colorIndices' = w.engine.colorIndices
    /\ colors' = w.engine.colors
    /\ sizes' = w.engine.sizes
    /\ colorMatrix' = w.engine.colorMatrix
    /\ CameraIs(w.camera)
    /\ cameraRef' = w.cameraRef
    /\ RendererIs(w.renderer)
    /\ rendererRef' = w.rendererRef
    /\ GLIs(w.gl)
    /\ InputIs(w.input)
    /\ mounted' = w.mounted
    /\ animating' = w.animating
    /\ lastTime' = w.lastTime
    /\ calls' = w.calls

\* the variables are the refs of w
WorldWas(w) ==
    /\ built = w.built
    /\ particleCount = w.engine.particleCount
    /\ colorCount = w.engine.colorCount
    /\ worldSize = w.engine.worldSize
    /\ sensingRadius = w.engine.sensingRadius
    /\ positions = w.engine.positions
    /\ velocities = w.engine.velocities
    /\ forces = w.engine.forces
    /\ colorIndices = w.engine.colorIndices
    /\ colors = w.engine.colors
    /\ sizes = w.engine.sizes
    /\ colorMatrix = w.engine.colorMatrix
    /\ position = w.camera.position
    /\ zoom = w.camera.zoom
    /\ minZoom = w.camera.minZoom
    /\ maxZoom = w.camera.maxZoom
    /\ screenWidth = w.camera.screenWidth
    /\ screenHeight = w.camera.screenHeight
    /\ cameraRef = w.cameraRef
    /\ program = w.renderer.program
    /\ positionBuffer = w.renderer.positionBuffer
    /\ colorBuffer = w.renderer.colorBuffer
    /\ sizeBuffer = w.renderer.sizeBuffer
    /\ uniformLocs = w.renderer.uniformLocs
    /\ rendererRef = w.rendererRef
    /\ glLive = w.gl.live
    /\ glDeletes = w.gl.deletes
    /\ glCommands = w.gl.commands
    /\ glNext = w.gl.next
    /\ isMouseDown = w.input.isMouseDown
    /\ lastMousePos = w.input.lastMousePos
    /\ mouseButton = w.input.mouseButton
    /\ cursor = w.input.cursor
    /\ listeners = w.input.listeners
    /\ mounted = w.mounted
    /\ animating = w.animating
    /\ lastTime = w.lastTime
    /\ calls = w.calls

\* the values the variables carry before the first initialization effect
Unmounted ==
    NoWorld([particleCount |-> 0, colorCount |-> 0,
             worldSize |-> [width |-> 0, height |-> 0], sensingRadius |-> 0,
             positions |-> <<>>, velocities |-> <<>>, forces |-> <<>>,
             colorIndices |-> <<>>, colors |-> <<>>, sizes |-> <<>>,
             colorMatrix |-> <<>>],
            NewCamera(0, 0, S),
            [isMouseDown |-> FALSE, lastMousePos |-> [x |-> 0, y |-> 0],
             mouseButton |-> -1, cursor |-> "grab", listeners |-> {}])

\* performance.now() when the Canvas mounts
MountTime == 1000

\* the Canvas after its first render: the initialization effect has run
InitLifecycle ==
    /\ \E counts \in LifecycleCounts, size \in WindowSizes,
          fail \in LifecycleFailures :
         /\ counts[1] > 0
         /\ props = LifecycleProps(counts[1], counts[2])
         /\ \E rp \in LifecycleDraws(counts[1]),
               rc \in {[i \in Idx(counts[1]) |-> IF i = 0 THEN 0
                                                 ELSE S \div 2]},
               rm \in [OffDiagonal(counts[2]) -> {0}] :
              WorldWas(initEffect(Unmounted, props, size[1], size[2], fail,
                                  rp, rc, rm, MountTime))
    /\ NoForceCall
    /\ NoEditor
    /\ gesture = NoGesture
    /\ clock = MountTime
    /\ lastOp = Op("mount", 0, 0, Flag(mounted))
    /\ ret = 0
    /\ thrown = ""
    /\ pre = 0
    /\ steps = 0

\* a step of the Canvas that leaves the refs as in w
LifecycleStep(w, op) ==
    /\ steps < MaxLifecycleSteps
    /\ WorldIs(w)
    /\ pre' = World
    /\ lastOp' = op
    /\ thrown' = ""
    /\ steps' = steps + 1
    /\ UNCHANGED <<forceArgs, editorVars, gesture>>

\* the refs after a rebuild, with what the step records of it
Rebuilt(w, n, cc) ==
    /\ LifecycleStep(w, Op("rebuild", n, cc, Flag(w.mounted)))
    /\ props' = LifecycleProps(n, cc)

\* the control surface changes particleCount or colorCount: the cleanup of
\* the previous initialization, the parameter-update effect if colorCount
\* changed, then the initialization effect
Rebuild(n, cc, size, fail) ==
    /\ <<n, cc>> # <<props.particleCount, props.colorCount>>
    /\ \E rp \in LifecycleDraws(n),
          rc \in {[i \in Idx(n) |-> IF i = 0 THEN 0 ELSE S \div 2]},
          rm \in [OffDiagonal(cc) -> {0}] :
         Rebuilt(initEffect(paramEffect(RunCleanup(World),
                                        LifecycleProps(n, cc),
                                        cc # props.colorCount),
                            LifecycleProps(n, cc), size[1], size[2], fail,
                            rp, rc, rm, clock),
                 n, cc)
    /\ ret' = 0
    /\ UNCHANGED clock

\* the browser runs the requested animation frame, gap milliseconds after
\* the current time
\* the browser runs the frame callback with a timestamp gap after
\* performance.now() of the previous step.  The timestamp is the time the
\* frame began, so the first frame after start() may carry one that is
\* earlier than the performance.now() start() has read.
Animate(gap) ==
    /\ animating
    /\ gap < 0 => lastOp.op \in {"mount", "rebuild"}
    /\ LifecycleStep(animate(World, clock + gap),
                     Op("animate", clock + gap, gap,
                        frameDelta(clock + gap, lastTime)))
    /\ clock' = IF gap < 0 THEN clock ELSE clock + gap
    /\ ret' = 0
    /\ UNCHANGED props

\* the window is resized while the resize listener is attached
WindowResize(size) ==
    /\ mounted
    /\ <<screenWidth, screenHeight>> # size
    /\ LifecycleStep(handleResize(World, size[1], size[2]),
                     Op("resize", size[1], size[2], 0))
    /\ ret' = 0
    /\ UNCHANGED <<props, clock>>

\* a key is pressed
KeyDown(key) ==
    /\ LifecycleStep([World EXCEPT
                        !.camera = IF cameraRef THEN handleKeyDown(@, key)
                                   ELSE @],
                     Op("keydown", 0, 0, 0))
    /\ ret' = 0
    /\ UNCHANGED <<props, clock>>

\* the pointer is pressed, moved or released, or the wheel is turned, over
\* the canvas
CanvasEvent(type) ==
    /\ LifecycleStep(canvasEvent(World, type), Op(type, 0, 0, 0))
    /\ ret' = 0
    /\ UNCHANGED <<props, clock>>

NextLifecycle ==
    \/ \E counts \in LifecycleCounts, size \in WindowSizes,
          fail \in LifecycleFailures :
         Rebuild(counts[1], counts[2], size, fail)
    \/ \E gap \in FrameGaps : Animate(gap)
    \/ \E size \in WindowSizes : WindowResize(size)
    \/ \E key \in Keys : KeyDown(key)
    \/ \E type \in CanvasEvents : CanvasEvent(type)

SpecLifecycle == InitLifecycle /\ [][NextLifecycle]_vars

-----------------------------------------------------------------------------
(* InteractionMatrix: the rule matrix editor, the App state it commits to  *)
(* and the parameter-update effect of the Canvas that writes the engine.   *)
(* A matrix is the flat array of its rows.                                 *)

\* the editor's state and the colorMatrix state of the App (its prop)
Editor ==
    [pendingMatrix |-> pendingMatrix, hasChanges |-> hasChanges,
     colorMatrix |-> props.colorMatrix]

\* handleValueChange committing the cell to the App as well
handleValueChangeLive(ed, cc, colorA, colorB, value) ==
    [ed EXCEPT !.pendingMatrix[colorA * cc + colorB] = Clamp(value, -S, S),
               !.colorMatrix[colorA * cc + colorB] = Clamp(value, -S, S),
               !.hasChanges = TRUE]

\* InteractionMatrix.handleValueChange(colorA, colorB, value)
handleValueChange(ed, cc, colorA, colorB, value) ==
    [ed EXCEPT !.pendingMatrix[colorA * cc + colorB] = Clamp(value, -S, S),
               !.hasChanges = TRUE]

\* InteractionMatrix.handleRandomize; rm gives Math.random() of each
\* off-diagonal cell
handleRandomize(ed, cc, rm) ==
    [ed EXCEPT !.pendingMatrix =
                  [k \in Idx(cc * cc) |->
                      IF k \div cc = k % cc THEN DiagonalRule
                      ELSE Mul(Sub(rm[k], S \div 2), 2)],
               !.hasChanges = TRUE]

\* InteractionMatrix.handleApplyChanges: onMatrixUpdate(pendingMatrix) is
\* App.handleMatrixUpdate, setColorMatrix(newMatrix)
handleApplyChanges(ed) ==
    [ed EXCEPT !.colorMatrix = ed.pendingMatrix, !.hasChanges = FALSE]

\* the editor's effect on a change of the colorMatrix prop
PendingFromProp(ed) ==
    [ed EXCEPT !.pendingMatrix = ed.colorMatrix, !.hasChanges = FALSE]

\* values a cell's slider or number field delivers
EditValues == {-2 * S, S \div 4, S}

\* time steps of the ticks between the editor's events
EditorDeltaTimes == {100}

MaxEditorSteps == 3

\* the App with a two-colour matrix, the Canvas mounted with two particles
\* in reach of each other, the editor showing the matrix
InitEditor ==
    /\ \E u, v \in {-S, S \div 2} :
         props = [forceScale |-> 150, maxSpeed |-> 120, damping |-> 98,
                  sensingRadius |-> 10 * LS, colorMatrix |-> PropMatrix(u, v)]
    /\ EngineBuilt(MountEngine(props, 2, 2, 8 * LS,
                               [k \in Idx(4) |-> IF k < 2 THEN S \div 2
                                                 ELSE (7 * S) \div 8],
                               [i \in Idx(2) |-> IF i = 0 THEN 0
                                                 ELSE S \div 2],
                               [k \in OffDiagonal(2) |-> 0]))
    /\ DefaultCamera
    /\ NoForceCall
    /\ NoInput /\ NoRenderer /\ NoGL /\ NoFrame
    /\ pendingMatrix = props.colorMatrix
    /\ hasChanges = FALSE
    /\ lastOp = Op("new", 0, 0, 0)
    /\ ret = 0
    /\ thrown = ""
    /\ steps = 0

\* React renders after an event left the editor and the App as in ed: when
\* the colorMatrix prop changed, the parameter-update effect of the Canvas
\* writes it to the engine and the editor's effect copies it to the
\* pending matrix
Rendered(ed, changed, op) ==
    /\ steps < MaxEditorSteps
    /\ EngineIs(IF changed
                THEN ParamsEffect(This, [props EXCEPT
                                           !.colorMatrix = ed.colorMatrix])
                ELSE This)
    /\ props' = [props EXCEPT !.colorMatrix = ed.colorMatrix]
    /\ pendingMatrix' = IF changed THEN PendingFromProp(ed).pendingMatrix
                        ELSE ed.pendingMatrix
    /\ hasChanges' = IF changed THEN PendingFromProp(ed).hasChanges
                     ELSE ed.hasChanges
    /\ pre' = [engine |-> This, editor |-> Editor]
    /\ lastOp' = op
    /\ thrown' = ""
    /\ steps' = steps + 1
    /\ UNCHANGED <<cameraVars, forceArgs, inputVars, rendererVars, glVars,
                   frameVars>>

\* an event handler of the editor left it and the App as in ed
EditorStep(ed, op) == Rendered(ed, ed.colorMatrix # props.colorMatrix, op)

\* a cell's value is changed in the editor
EditCell(a, b, v) ==
    /\ EditorStep(handleValueChange(Editor, colorCount, a, b, v),
                  Op("edit", a, b, v))
    /\ ret' = 0

\* the Randomize button
Randomize ==
    \E rm \in [OffDiagonal(colorCount) -> {0, (7 * S) \div 8}] :
        /\ EditorStep(handleRandomize(Editor, colorCount, rm),
                      Op("randomize", 0, 0, 0))
        /\ ret' = 0

\* the Apply Changes button
ApplyChanges ==
    /\ EditorStep(handleApplyChanges(Editor), Op("apply", 0, 0, 0))
    /\ ret' = 0

\* an animation frame between two events: the engine ticks
Tick(dt) ==
    /\ steps < MaxEditorSteps
    /\ EngineIs(update(This, dt))
    /\ pre' = [engine |-> This, editor |-> Editor]
    /\ lastOp' = Op("update", dt, 0, 0)
    /\ thrown' = ""
    /\ steps' = steps + 1
    /\ ret' = 0
    /\ UNCHANGED <<props, cameraVars, forceArgs, uiVars>>

NextEditor ==
    \/ \E a, b \in Idx(2), v \in EditValues : EditCell(a, b, v)
    \/ Randomize
    \/ ApplyChanges
    \/ \E dt \in EditorDeltaTimes : Tick(dt)

SpecEditor == InitEditor /\ [][NextEditor]_vars

-----------------------------------------------------------------------------
(* Properties of the Simulation Engine.                                    *)

InHalfOpen(p, size) == p >= -(size \div 2) /\ p < size \div 2

\* C1 (wrap invariant): after every update, every position that is a
\* number lies in [-halfWidth, halfWidth) x [-halfHeight, halfHeight) of
\* the current world.  The code leaves a particle that lands exactly on
\* +halfWidth where it is.
C1_WrapInvariant ==
    lastOp.op = "update" =>
        \A k \in DOMAIN positions :
            positions[k] # NaN =>
                IF k % 2 = 0 THEN InHalfOpen(positions[k], worldSize.width)
                             ELSE InHalfOpen(positions[k], worldSize.height)

\* C2 (clamp invariant): setColorRule(a, b, v) with a, b in range stores
\* clamp(v, -1, 1) in matrix[a][b], so that getColorRule(a, b) is then in
\* [-1, 1].  The code stores v as given.
C2_ClampInvariant ==
    (lastOp.op = "setColorRule" /\ InRange(This, lastOp.a, lastOp.b)) =>
        /\ colorMatrix[lastOp.a * colorCount + lastOp.b] = Clamp(lastOp.v, -S, S)
        /\ getColorRule(This, lastOp.a, lastOp.b) >= -S
        /\ getColorRule(This, lastOp.a, lastOp.b) <= S

\* C3 (matrix range invariant): every entry of the interaction matrix of a
\* constructed engine lies in [-1, 1].  The code seeds the off-diagonal
\* entries in [-1.5, 1.5).
C3_MatrixRange ==
    built => \A k \in DOMAIN colorMatrix :
                 colorMatrix[k] >= -S /\ colorMatrix[k] <= S

\* the force law as the claim states it, beta = 0.3
ReferenceForce(r, a) ==
    IF r < beta THEN TruncDiv(r * S, beta) - S
    ELSE IF r < S
         THEN TruncDiv(a * (S - TruncDiv(Abs(2 * r - S - beta) * S, S - beta)), S)
         ELSE 0

\* C4 (force law): particleLifeForce(r, a) is the piecewise reference for
\* every r >= 0 and a: F(0, a) = -1, F(beta, a) = 0 with values next to beta
\* within 1/100 of 0 on both sides, F(1, a) = 0 and F(0.6, 1) = 6/7.
C4_ForceLaw ==
    lastOp.op = "particleLifeForce" =>
        /\ ret = ReferenceForce(forceArgs.r, forceArgs.a)
        /\ forceArgs.r = 0 => ret = -S
        /\ forceArgs.r = beta => ret = 0
        /\ Abs(forceArgs.r - beta) <= 1 => Abs(ret) * 100 <= S
        /\ forceArgs.r >= S => ret = 0
        /\ (forceArgs.r = (6 * S) \div 10 /\ forceArgs.a = S) => 7 * ret = 6 * S

\* the force was evaluated at r = beta with a non-zero coefficient
C4_Witness ==
    /\ lastOp.op = "particleLifeForce"
    /\ forceArgs.r = beta
    /\ forceArgs.a = S

\* what particle j adds to the force on particle i, by the claim: the unit
\* direction from i toward j times F(r, rule[color(i)][color(j)]) when j is
\* within the sensing radius, nothing otherwise
ReferencePull(e, i, j) ==
    LET dx == e.positions[j * 2] - e.positions[i * 2]
        dy == e.positions[j * 2 + 1] - e.positions[i * 2 + 1]
        d == Sqrt(dx * dx + dy * dy)
        a == e.colorMatrix[e.colorIndices[i] * e.colorCount + e.colorIndices[j]]
        f == ReferenceForce(TruncDiv(d * S, e.sensingRadius), a)
    IN  IF dx * dx + dy * dy <= e.sensingRadius * e.sensingRadius
        THEN [x |-> TruncDiv(TruncDiv(dx * S, d) * f, S),
              y |-> TruncDiv(TruncDiv(dy * S, d) * f, S)]
        ELSE [x |-> 0, y |-> 0]

RECURSIVE ReferenceSum(_, _, _)
\* the sum of the pulls on i of the particles j, j + 1, .. other than i
ReferenceSum(e, i, j) ==
    IF j >= e.particleCount THEN [x |-> 0, y |-> 0]
    ELSE LET rest == ReferenceSum(e, i, j + 1)
             pull == IF j = i THEN [x |-> 0, y |-> 0] ELSE ReferencePull(e, i, j)
         IN  [x |-> pull.x + rest.x, y |-> pull.y + rest.y]

\* the positions of e are numbers and no other particle sits exactly on i
\* (the unit direction between coincident particles is undefined)
Apart(e, i) ==
    /\ \A k \in DOMAIN e.positions : e.positions[k] # NaN
    /\ \A j \in Idx(e.particleCount) \ {i} :
          \/ e.positions[j * 2] # e.positions[i * 2]
          \/ e.positions[j * 2 + 1] # e.positions[i * 2 + 1]

C6_ConfigScalarsHonoured ==
    lastOp.op = "update" =>
        velocities =
            IntegrateWith([pre EXCEPT !.forces = forces], lastOp.a,
                          props.damping, props.maxSpeed, props.forceScale).velocities

\* C7 (initialization validation): new ParticleSystem fails exactly when
\* particleCount < 1 or colorCount < 1.  The code fails only for negative
\* counts.
C7_InitValidation ==
    lastOp.op = "new" =>
        ((thrown # "") <=> (lastOp.a < 1 \/ lastOp.b < 1))

\* C8 (invalid matrix indices never fault or mutate): setColorRule with an
\* index outside [0, colorCount) returns normally and leaves the whole
\* engine as it was; getColorRule with such an index returns 0.
C8_InvalidIndices ==
    /\ (lastOp.op = "setColorRule" /\ ~InRange(pre, lastOp.a, lastOp.b)) =>
           (This = pre /\ thrown = "")
    /\ (lastOp.op = "getColorRule" /\ ~InRange(pre, lastOp.a, lastOp.b)) =>
           (ret = 0 /\ This = pre /\ thrown = "")

\* setColorRule(0, 2, v) was called on a two-colour engine whose cell
\* (1, 0), the flat index 0 * 2 + 2, holds another value than v
C8_Witness ==
    /\ lastOp.op = "setColorRule"
    /\ lastOp.a = 0
    /\ lastOp.b = colorCount
    /\ colorCount = 2
    /\ colorMatrix[2] # lastOp.v

-----------------------------------------------------------------------------
(* Properties of the Camera.                                               *)

\* C9 (zoom clamp invariant): minZoom <= zoom <= maxZoom in every camera
\* state.  reset() sets zoom to 1 whatever the constraints are.
C9_ZoomClamp == minZoom <= zoom /\ zoom <= maxZoom

\* C10 (zoom anchor): the world point under the cursor is the same before
\* and after zoomAt, also when the new zoom is clamped; from focus (0, 0),
\* zoom 1 and an 800 x 600 screen, zoomAt(400, 300, 2.0) leaves the focus
\* at (0, 0) and the zoom at 2.0.
C10_ZoomAnchor ==
    lastOp.op = "zoomAt" =>
        /\ screenToWorld(Cam, lastOp.a, lastOp.b)
               = screenToWorld(pre, lastOp.a, lastOp.b)
        /\ zoom = ClampZoom(TruncDiv(pre.zoom * lastOp.v, S), minZoom, maxZoom)
        /\ ( /\ pre.position = [x |-> 0, y |-> 0]
             /\ pre.zoom = S
             /\ pre.screenWidth = 800 * LS /\ pre.screenHeight = 600 * LS
             /\ lastOp.a = 400 * LS /\ lastOp.b = 300 * LS /\ lastOp.v = 2 * S )
           => (position = [x |-> 0, y |-> 0] /\ zoom = 2 * S)

\* a zoom away from the screen centre whose new zoom was clamped at maxZoom
\* and moved the focus
C10_Witness ==
    /\ lastOp.op = "zoomAt"
    /\ TruncDiv(pre.zoom * lastOp.v, S) > maxZoom
    /\ zoom = maxZoom
    /\ zoom # pre.zoom
    /\ lastOp.a # TruncDiv(screenWidth, 2)
    /\ position # pre.position

-----------------------------------------------------------------------------
(* Properties of the Camera transform.                                     *)

\* |a - b| <= eps
Near(a, b, eps) == a # NaN /\ b # NaN /\ Abs(a - b) <= eps

\* the rounding of a screen coordinate that went through the world: one
\* rounding of the world coordinate, magnified by the zoom, and the
\* roundings of the screen coordinates themselves
ScreenEps(c) == (c.zoom \div S) + 2

\* the rounding of a world coordinate that went through the screen
WorldEps(c) == (S \div c.zoom) + 2

\* screen points and world points of the round trip, in pixels
RoundTripScreen == {<<0, 0>>, <<110, 95>>, <<799, 600>>}

RoundTripWorld == {<<0, 0>>, <<-250, 130>>, <<37, -1>>}

\* C11 (camera round trip): in every camera state, worldToScreen after
\* screenToWorld gives back every screen point, and screenToWorld after
\* worldToScreen gives back every world point, up to the rounding of the
\* arithmetic.
C11_RoundTrip ==
    /\ \A p \in RoundTripScreen :
         LET w == screenToWorld(Cam, p[1] * LS, p[2] * LS)
             q == worldToScreen(Cam, w.x, w.y)
         IN  /\ Near(q.x, p[1] * LS, ScreenEps(Cam))
             /\ Near(q.y, p[2] * LS, ScreenEps(Cam))
    /\ \A w \in RoundTripWorld :
         LET q == worldToScreen(Cam, w[1] * LS, w[2] * LS)
             v == screenToWorld(Cam, q.x, q.y)
         IN  /\ Near(v.x, w[1] * LS, WorldEps(Cam))
             /\ Near(v.y, w[2] * LS, WorldEps(Cam))

\* a camera away from the origin, zoomed, on an 800 x 600 screen, in which
\* the round trip of a screen point is rounded
C11_Witness ==
    /\ position.x # 0 /\ position.y # 0
    /\ zoom # S
    /\ screenWidth = 800 * LS
    /\ \E p \in RoundTripScreen :
         LET w == screenToWorld(Cam, p[1] * LS, p[2] * LS)
         IN  worldToScreen(Cam, w.x, w.y).x # p[1] * LS

\* C12 (pan follows the cursor): pan(dx, dy) moves the focus by
\* (-dx / zoom, -dy / zoom), leaves zoom, constraints and screen size
\* alone, and shifts the screen image of every world point by (dx, dy), up
\* to the rounding of the arithmetic.
C12_PanFollowsCursor ==
    lastOp.op = "pan" =>
        /\ position.x = pre.position.x - TruncDiv(lastOp.a * S, pre.zoom)
        /\ position.y = pre.position.y - TruncDiv(lastOp.b * S, pre.zoom)
        /\ zoom = pre.zoom /\ minZoom = pre.minZoom /\ maxZoom = pre.maxZoom
        /\ screenWidth = pre.screenWidth /\ screenHeight = pre.screenHeight
        /\ \A w \in RoundTripWorld :
             LET before == worldToScreen(pre, w[1] * LS, w[2] * LS)
                 after == worldToScreen(Cam, w[1] * LS, w[2] * LS)
             IN  /\ Near(after.x - before.x, lastOp.a, ScreenEps(pre))
                 /\ Near(after.y - before.y, lastOp.b, ScreenEps(pre))

\* a pan at a zoom other than 1, from a focus away from the origin
C12_Witness ==
    /\ lastOp.op = "pan"
    /\ pre.zoom # S
    /\ pre.position.x # 0
    /\ position # pre.position

-----------------------------------------------------------------------------
(* Properties of the Input Mapper.                                         *)

\* the pointer and wheel events
InputEvents == {"mousedown", "mousemove", "mouseup", "wheel", "contextmenu"}

\* C13 (two-state machine): a pointer-down received makes the mapper
\* Dragging and records the position, a pointer-up received (on the canvas
\* or on the window) makes it Idle, nothing else changes that state; a
\* pointer-move while Idle leaves the camera alone, a pointer-move while
\* Dragging pans by the movement since the last position, and apart from
\* pointer-move only the wheel changes the camera.
C13_TwoStateMachine ==
    lastOp.op \in InputEvents \cup {"dispose", "setEnabled"} =>
        /\ (lastOp.op = "mousedown" /\ lastOp.v = 1) =>
               /\ isMouseDown
               /\ lastMousePos = [x |-> lastOp.a, y |-> lastOp.b]
        /\ (lastOp.op = "mouseup" /\ lastOp.v = 1) => ~isMouseDown
        /\ ~(lastOp.op \in {"mousedown", "mouseup"} /\ lastOp.v = 1) =>
               isMouseDown = pre.input.isMouseDown
        /\ (lastOp.op = "mousemove" /\ ~pre.input.isMouseDown) =>
               Cam = pre.camera
        /\ (lastOp.op = "mousemove" /\ pre.input.isMouseDown /\ lastOp.v = 1) =>
               Cam = pan(pre.camera, lastOp.a - pre.input.lastMousePos.x,
                                     lastOp.b - pre.input.lastMousePos.y)
        /\ lastOp.op \notin {"mousemove", "wheel"} => Cam = pre.camera

\* a pointer-move while Dragging that panned the camera, after the zoom
\* was changed by the wheel
C13_Witness ==
    /\ lastOp.op = "mousemove"
    /\ pre.input.isMouseDown
    /\ isMouseDown
    /\ position # pre.camera.position
    /\ zoom \notin InputZooms

\* C14 (dispose): dispose() leaves none of the handler's six listeners
\* attached, and an event that arrives while none is attached changes
\* neither the handler nor the camera.
C14_DisposeDetaches ==
    /\ lastOp.op = "dispose" => listeners \cap HandlerListeners = {}
    /\ ( /\ lastOp.op \in InputEvents
         /\ pre.input.listeners \cap HandlerListeners = {} )
       => (Input = pre.input /\ Cam = pre.camera)

\* a pointer-up on the window after a dispose() during a drag
C14_Witness ==
    /\ lastOp.op = "mouseup"
    /\ pre.input.listeners = {}
    /\ pre.input.isMouseDown
    /\ isMouseDown

-----------------------------------------------------------------------------
(* Properties of the Renderer.                                             *)

\* C15 (construction failure leaks nothing): when the constructor throws,
\* no GPU object it created is left undeleted.
C15_NoLeakOnFailure ==
    (lastOp.op = "newRenderer" /\ thrown # "") => glLive \subseteq pre.gl.live

\* C16 (dispose): no buffer and no program is ever deleted twice, dispose()
\* deletes each object the renderer holds and holds none afterwards, and a
\* render() or resize() on a disposed renderer issues no command.
C16_DisposeOnce ==
    /\ \A h \in DOMAIN glDeletes :
         h.kind \in {"buffer", "program"} => glDeletes[h] <= 1
    /\ lastOp.op = "disposeRenderer" =>
         /\ \A h \in Held(pre.renderer) :
              glDeletes[h] = 1 /\ h \notin glLive
         /\ Held(Renderer) = {}
    /\ (lastOp.op \in {"render", "resize"} /\ pre.renderer.program = Null) =>
         glCommands = pre.gl.commands

\* a render() after a renderer that had drawn was disposed
C16_Witness ==
    /\ lastOp.op = "render"
    /\ pre.renderer.program = Null
    /\ pre.renderer.uniformLocs
    /\ glCommands >= 3 + 18
    /\ \E h \in DOMAIN glDeletes : h.kind = "program" /\ glDeletes[h] = 1

-----------------------------------------------------------------------------
(* Properties of the Frame Driver.                                         *)

\* C17.  Frame-time clamp: on every animation frame the deltaTime the
\* Canvas computes and passes to ParticleSystem.update is at most 0.1 s
\* (100 ms), however far the frame's timestamp is from the previous one;
\* the engine is then the one update makes of the previous engine with
\* that deltaTime.
C17_FrameTimeClamp ==
    lastOp.op = "animate" =>
        /\ lastOp.v <= 100
        /\ (pre.built /\ pre.rendererRef /\ pre.cameraRef)
              => This = update(pre.engine, lastOp.v)

\* a frame 250 ms after the previous one has updated the engine with 100 ms
C17_Witness ==
    /\ lastOp.op = "animate"
    /\ lastOp.b = 250
    /\ lastOp.v = 100
    /\ pre.built /\ pre.rendererRef /\ pre.cameraRef
    /\ lastTime = pre.lastTime + 250

\* C18.  Camera persistence: after a rebuild caused by a change of
\* particleCount or colorCount, the camera's focus and zoom are what they
\* were immediately before the rebuild.
C18_CameraPersists ==
    lastOp.op = "rebuild" =>
        /\ position = pre.camera.position
        /\ zoom = pre.camera.zoom

-----------------------------------------------------------------------------
(* Properties of the integration step.                                     *)

\* C19.  Speed clamp: after every tick, every particle's speed
\* sqrt(vx^2 + vy^2) is a number and is at most maxSpeed.
C19_SpeedClamp ==
    lastOp.op = "update" =>
        \A i \in Idx(particleCount) :
            /\ velocities[2 * i] # NaN
            /\ velocities[2 * i + 1] # NaN
            /\ velocities[2 * i] * velocities[2 * i]
                 + velocities[2 * i + 1] * velocities[2 * i + 1]
               <= (maxSpeed * LS) * (maxSpeed * LS)

-----------------------------------------------------------------------------
(* Properties of the rule matrix's diagonal.                               *)

\* C20.  Diagonal repulsion invariant: immediately after construction and
\* immediately after every randomizeRules() call, rule[c][c] is the fixed
\* repulsion constant -0.4 for every colour c below colorCount, whatever
\* the diagonal held before.
C20_DiagonalRepulsion ==
    lastOp.op \in {"new", "randomizeRules"} =>
        \A c \in Idx(colorCount) :
            /\ colorMatrix[c * colorCount + c] = DiagonalRule
            /\ getColorRule(This, c, c) = DiagonalRule

\* randomizeRules has run on an engine whose diagonal had been overwritten
C20_Witness ==
    /\ lastOp.op = "randomizeRules"
    /\ colorCount = 2
    /\ \E c \in Idx(colorCount) :
         pre.colorMatrix[c * colorCount + c] # DiagonalRule

-----------------------------------------------------------------------------
(* Properties of the Canvas across rebuilds.                               *)

\* the renderers that were constructed and not disposed: each holds one
\* linked program until its dispose deletes it
UndisposedRenderers == {h \in glLive : h.kind = "program"}

\* C21.  Single live instance across rebuilds: in every reachable state of
\* the Canvas, also after an initialization that threw part-way, at most
\* one renderer is undisposed, and the listeners attached are those of one
\* input mapper, none while no initialization is in force.
C21_SingleLiveInstance ==
    /\ Cardinality(UndisposedRenderers) <= 1
    /\ listeners \subseteq HandlerListeners
    /\ (~mounted => listeners = {})

-----------------------------------------------------------------------------
(* Properties of a frame.                                                  *)

\* the names of the calls of the last step, in order
CallNames == [k \in DOMAIN calls |-> calls[k].name]

\* C22.  Frame ordering: an animation frame makes exactly one update, then
\* one getTransformUniforms, then one render, in that order; the render
\* draws the positions that update produced, under the camera transform
\* read after it; no other step of the Canvas (rebuild, resize, key, pointer
\* or wheel event) calls update or render.
C22_FrameOrdering ==
    /\ lastOp.op = "animate" =>
         /\ CallNames = <<"update", "getTransformUniforms", "render">>
         /\ calls[1].arg = lastOp.v
         /\ calls[2].arg = getTransformUniforms(Cam)
         /\ calls[3].arg.positions = update(pre.engine, lastOp.v).positions
         /\ calls[3].arg.positions = positions
         /\ calls[3].arg.cameraPosition = <<position.x, position.y>>
         /\ calls[3].arg.cameraZoom = zoom
    /\ lastOp.op # "animate" =>
         \A k \in DOMAIN calls : calls[k].name \notin {"update", "render"}

\* a frame has moved a particle and drawn it under a camera that a key or
\* the pointer had changed
C22_Witness ==
    /\ lastOp.op = "animate"
    /\ positions # pre.engine.positions
    /\ zoom # S
    /\ Len(calls) = 3

-----------------------------------------------------------------------------
(* Properties of the rule matrix editor.                                   *)

\* C23.  Atomic rule-matrix commit: a cell edit and Randomize change only
\* the editor's pending matrix, not the matrix handed to the Canvas nor the
\* engine's; Apply Changes hands the whole pending matrix over and the
\* engine then holds every cell of it; between events the engine's matrix
\* is the handed-over one, so each tick runs with a whole matrix.
C23_AtomicCommit ==
    /\ colorMatrix = props.colorMatrix
    /\ lastOp.op \in {"edit", "randomize"} =>
         /\ props.colorMatrix = pre.editor.colorMatrix
         /\ colorMatrix = pre.engine.colorMatrix
    /\ lastOp.op = "apply" =>
         /\ props.colorMatrix = pre.editor.pendingMatrix
         /\ \A k \in DOMAIN colorMatrix :
              colorMatrix[k] = pre.editor.pendingMatrix[k]
    /\ lastOp.op = "update" =>
         /\ pre.engine.colorMatrix = pre.editor.colorMatrix
         /\ colorMatrix = pre.engine.colorMatrix

\* Apply Changes has delivered a pending matrix that differed from the live
\* one in more than one cell
C23_Witness ==
    /\ lastOp.op = "apply"
    /\ pre.editor.hasChanges
    /\ Cardinality({k \in DOMAIN colorMatrix :
                      pre.editor.pendingMatrix[k] # pre.editor.colorMatrix[k]})
         >= 2

-----------------------------------------------------------------------------
(* Properties of a drag gesture and of the wheel.                          *)

\* C24.  Drag accumulation: from a pointer-down at p0 on, while the zoom z
\* is not changed, the camera focus is the focus at the pointer-down minus
\* (pn - p0) / z in each axis, pn being the last pointer position the
\* mapper received (one rounding per move apart), and the zoom is z; a
\* pointer-up that is received leaves the mapper Idle with that focus.
C24_DragAccumulation ==
    (lastOp.op \in InputEvents /\ gesture.steady) =>
        /\ Near(position.x,
                gesture.focus.x
                  - TruncDiv((gesture.pn.x - gesture.p0.x) * S, gesture.zoom),
                gesture.moves)
        /\ Near(position.y,
                gesture.focus.y
                  - TruncDiv((gesture.pn.y - gesture.p0.y) * S, gesture.zoom),
                gesture.moves)
        /\ zoom = gesture.zoom
        /\ (lastOp.op = "mouseup" /\ lastOp.v = 1) => ~isMouseDown

\* a gesture of two moves, ending away from where it began, has ended
C24_Witness ==
    /\ lastOp.op = "mouseup"
    /\ lastOp.v = 1
    /\ pre.input.isMouseDown
    /\ gesture.steady
    /\ gesture.moves = 2
    /\ gesture.p0 = [x |-> 100 * LS, y |-> 100 * LS]
    /\ lastMousePos = [x |-> 125 * LS, y |-> 90 * LS]
    /\ gesture.pn = lastMousePos
    /\ position # gesture.focus

\* C25.  Wheel mapping: a wheel event the mapper receives makes one
\* Camera.zoomAt call at the cursor's position on the canvas, with factor
\* 0.9 when deltaY > 0 and 1.1 otherwise, whether Idle or Dragging, and
\* leaves the mapper's state (Idle or Dragging, last position, button)
\* as it was.
C25_WheelMapping ==
    (lastOp.op = "wheel" /\ lastOp.v = 1) =>
        /\ Cam = zoomAt(pre.camera, lastOp.a, lastOp.b,
                        IF ret > 0 THEN (9 * S) \div 10 ELSE (11 * S) \div 10)
        /\ Input = pre.input

\* the wheel was turned towards zoom-out during a drag, away from the
\* centre of the screen
C25_Witness ==
    /\ lastOp.op = "wheel"
    /\ lastOp.v = 1
    /\ ret > 0
    /\ isMouseDown
    /\ pre.input.isMouseDown
    /\ zoom < pre.camera.zoom
    /\ position # pre.camera.position

-----------------------------------------------------------------------------
(* Properties of the Particle Set.                                         *)

\* C26.  Shape invariant: whenever an engine exists, positions, velocities
\* and forces have 2N components, colors has 3N, sizes and colorIndices
\* have N, every colour index is at least 0 and below colorCount, and a
\* tick leaves colorIndices, colors and sizes as they were.
C26_ShapeInvariant ==
    built =>
        /\ DOMAIN positions = Idx(2 * particleCount)
        /\ DOMAIN velocities = Idx(2 * particleCount)
        /\ DOMAIN forces = Idx(2 * particleCount)
        /\ DOMAIN colors = Idx(3 * particleCount)
        /\ DOMAIN sizes = Idx(particleCount)
        /\ DOMAIN colorIndices = Idx(particleCount)
        /\ \A i \in Idx(particleCount) : colorIndices[i] \in Idx(colorCount)
        /\ lastOp.op = "update" =>
             /\ colorIndices = pre.colorIndices
             /\ colors = pre.colors
             /\ sizes = pre.sizes

\* the engine after the first three stages of update(dt), before wrapping
Integrated(e, dt) ==
    integrate([ResetForces(e) EXCEPT !.forces = calculateForces(ResetForces(e))], dt)

\* C27.  World resize frame condition: setWorldSize(w, h) changes the world
\* width and height and nothing else (positions, velocities, colours and
\* the interaction matrix are as before), and the tick that follows wraps
\* every position against the bounds that call has set.
C27_ResizeFrame ==
    /\ lastOp.op = "setWorldSize" =>
         /\ This = [pre EXCEPT !.worldSize = [width |-> lastOp.a, height |-> lastOp.b]]
         /\ positions = pre.positions
         /\ velocities = pre.velocities
         /\ colors = pre.colors
         /\ colorMatrix = pre.colorMatrix
    /\ lastOp.op = "update" =>
         /\ worldSize = pre.worldSize
         /\ \A k \in DOMAIN positions :
              positions[k] = Wrap(Integrated(pre, lastOp.a).positions[k],
                                  IF k % 2 = 0 THEN pre.worldSize.width
                                               ELSE pre.worldSize.height)

\* a tick after a resize to 6 wraps a particle that the world of 8 it was
\* created in would have left where it was
C27_Witness ==
    /\ lastOp.op = "update"
    /\ steps = 2
    /\ worldSize.width = 6 * LS
    /\ \E k \in DOMAIN positions :
         /\ positions[k] # NaN
         /\ positions[k] # Wrap(Integrated(pre, lastOp.a).positions[k], 8 * LS)

\* C28.  Tick is always well-defined: after every update(dt), every
\* component of forces, velocities and positions is a number, also when two
\* particles are at the same position or sensingRadius is 0.
C28_TickDefined ==
    lastOp.op = "update" =>
        /\ \A k \in DOMAIN forces : forces[k] # NaN
        /\ \A k \in DOMAIN velocities : velocities[k] # NaN
        /\ \A k \in DOMAIN positions : positions[k] # NaN

\* C29.  No stale drag after re-enable: when setEnabled(true) re-attaches
\* the listeners of a mapper that had none (after setEnabled(false) or
\* dispose), the mapper is Idle, so that a pointer-move without a new
\* pointer-down does not pan the Camera.
C29_NoStaleDrag ==
    /\ (/\ lastOp.op = "setEnabled"
        /\ lastOp.a = 1
        /\ pre.input.listeners = {}) => ~isMouseDown
    /\ (lastOp.op = "mousemove" /\ ~gesture.down) => Cam = pre.camera

\* C30.  Non-negative time step: on every animation frame, the first frame
\* after the loop is started or restarted included, the deltaTime passed to
\* ParticleSystem.update is at least 0 and at most 0.1 s (100 ms).
C30_NonNegativeStep ==
    (lastOp.op = "animate" /\ pre.built /\ pre.rendererRef /\ pre.cameraRef) =>
        /\ calls[1] = Call("update", lastOp.v)
        /\ calls[1].arg >= 0
        /\ calls[1].arg <= 100

=============================================================================
